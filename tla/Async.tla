------------------------------- MODULE Async -------------------------------
(***************************************************************************)
(* async.go: a tick that runs another one in a goroutine of its own and    *)
(* answers running until a call finds the result.                          *)
(*                                                                         *)
(* The tick is called by one goroutine at a time.  A call is one step: it  *)
(* never blocks.  The goroutine of an execution sends to whatever channel  *)
(* the variable done holds when it gets to sending, and a nil channel      *)
(* blocks it for ever.  Executions and their channels have the same        *)
(* number; numbers are used again in turn.                                 *)
(***************************************************************************)
EXTENDS Naturals, FiniteSets

CONSTANTS
  Executions   \* how many executions are told apart

ASSUME AsyncAssumption == Executions \in Nat \ {0, 1}

VARIABLES
  done,     \* the variable done: a channel, or Nil
  buffer,   \* what each channel holds, its capacity being one
  work,     \* where the goroutine of each execution is
  status,   \* its variable status
  result,   \* what the last call of the tick returned
  last      \* history: the execution started last

vars == <<done, buffer, work, status, result, last>>

Ids == 0..Executions - 1
Nil == Executions
Succ(d) == IF d = Executions - 1 THEN 0 ELSE d + 1

(* What the wrapped tick gives; "unset" is the zero value that is sent when it
   ends the goroutine and does not return (runtime.Goexit). *)
Answers == {"running", "success", "failure", "error", "unset"}

Empty == "none"

TypeOK ==
  /\ done \in Ids \cup {Nil}
  /\ buffer \in [Ids -> Answers \cup {Empty}]
  /\ work \in [Ids -> {"none", "ticking", "sending"}]
  /\ status \in [Ids -> Answers]
  /\ result \in Answers \cup {"none"}
  /\ last \in Ids

Init ==
  /\ done = Nil
  /\ buffer = [d \in Ids |-> Empty]
  /\ work = [d \in Ids |-> "none"]
  /\ status = [d \in Ids |-> "unset"]
  /\ result = "none"
  /\ last = 0

-----------------------------------------------------------------------------
(* A call of the tick *)

(* No execution is going on: it starts one. *)
Start ==
  /\ done = Nil
  /\ work[Succ(last)] = "none"
  /\ last' = Succ(last)
  /\ done' = last'
  /\ buffer' = [buffer EXCEPT ![last'] = Empty]
  /\ work' = [work EXCEPT ![last'] = "ticking"]
  /\ status' = [status EXCEPT ![last'] = "unset"]
  /\ result' = "running"

(* The result is there. *)
Receive ==
  /\ done # Nil /\ buffer[done] # Empty
  /\ done' = Nil
  /\ buffer' = [buffer EXCEPT ![done] = Empty]
  /\ result' = buffer[done]
  /\ UNCHANGED <<work, status, last>>

(* Mutant: the variable is reset before it is known that there is a result. *)
PollForgets ==
  /\ done # Nil /\ buffer[done] = Empty
  /\ done' = Nil
  /\ result' = "running"
  /\ UNCHANGED <<buffer, work, status, last>>

(* It is not. *)
Poll ==
  /\ done # Nil /\ buffer[done] = Empty
  /\ result' = "running"
  /\ UNCHANGED <<done, buffer, work, status, last>>

Call == Start \/ Receive \/ Poll

-----------------------------------------------------------------------------
(* The goroutine of an execution *)

TickReturns(d, answer) ==
  /\ work[d] = "ticking"
  /\ status' = [status EXCEPT ![d] = answer]
  /\ work' = [work EXCEPT ![d] = "sending"]
  /\ UNCHANGED <<done, buffer, result, last>>

Send(d) ==
  /\ work[d] = "sending"
  /\ done # Nil /\ buffer[done] = Empty
  /\ buffer' = [buffer EXCEPT ![done] = status[d]]
  /\ work' = [work EXCEPT ![d] = "none"]
  /\ UNCHANGED <<done, status, result, last>>

Work(d) == Send(d) \/ \E answer \in Answers : TickReturns(d, answer)

Next == Call \/ \E d \in Ids : Work(d)

Spec == Init /\ [][Next]_vars

-----------------------------------------------------------------------------
Working == {d \in Ids : work[d] # "none"}

(* One execution at a time: no goroutine is left of an earlier one when the
   wrapped tick is called again (async.go:29-35), so that it need not be safe
   for concurrent use. *)
OneAtATime == Working # {} => (Working = {last} /\ done = last)

(* Why: the execution that is going on either has its goroutine or its result
   in the channel, and every other channel and goroutine is out of use. *)
IInv ==
  /\ TypeOK
  /\ done \in {last, Nil}
  /\ \A d \in Ids : d # done => work[d] = "none" /\ buffer[d] = Empty
  /\ done # Nil => (work[done] = "none" <=> buffer[done] # Empty)

(* How far the execution is, for the tree, and what its tick has given. *)
Phase ==
  IF done = Nil THEN "idle"
  ELSE IF buffer[done] # Empty THEN "ready"
  ELSE IF work[done] = "ticking" THEN "ticking" ELSE "over"

Answer ==
  IF Phase = "over" THEN status[done]
  ELSE IF Phase = "ready" THEN buffer[done] ELSE "none"

Contract == INSTANCE AsyncContract WITH phase <- Phase, answer <- Answer

(* The caller of an Async tick gets the result of the execution going on, and
   gets it once, whatever the goroutines of the executions do (async.go:28-55). *)
AsyncIsContract == Contract!Spec

(* The channel has room, so that a goroutine ends although nobody calls the
   tick again (async.go:31-34). *)
NoGoroutineLeaks == \A d \in Ids : work[d] # "none" ~> work[d] = "none"

(* Whoever keeps calling gets the result. *)
ResultArrives == WF_vars(Call) => (done # Nil ~> done = Nil)
=============================================================================
