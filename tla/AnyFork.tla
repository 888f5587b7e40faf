------------------------------ MODULE AnyFork ------------------------------
(***************************************************************************)
(* Any(Fork()), as in any_test.go:173: the children, which set the flag of *)
(* Any, are ticked by the goroutines of Fork, and Fork goes on ticking the *)
(* wrappers that an earlier tick of Any made.  Each step is one of Fork    *)
(* and what Any adds to it.                                                *)
(***************************************************************************)
EXTENDS Fork

VARIABLES
  success,    \* any.go, the variable success
  anyResult,  \* what the last tick of Any returned
  credit      \* history: a child succeeded in a cycle that ended with an error,
              \* and every cycle since did

anyVars == <<success, anyResult, credit>>
allVars == <<vars, anyVars>>

AnyInit ==
  /\ Init
  /\ success = FALSE
  /\ anyResult = "none"
  /\ credit = FALSE

AnyBegin(n) == Begin(n) /\ UNCHANGED anyVars

(* The wrapper of the child takes the mutex before its goroutine sends; nobody
   else looks at the flag until all have sent. *)
AnyChild(c) ==
  \E answer \in Answers :
    /\ TickReturns(c, answer)
    /\ success' = (success \/ answer = "success")
    /\ UNCHANGED <<anyResult, credit>>

AnyReceive == Receive /\ UNCHANGED anyVars

(* Mutant: the flag is also reset when Fork goes on. *)
RemembersError(value) == value = "error"

(* Does Any return before it looks at the flag? *)
Remembers(value) == value \in {"error", "running"}

SucceededInCycle == \E c \in 1..children : final[c] = "success"

(* Fork has returned result' to Any. *)
AnyEnd ==
  /\ End
  /\ anyResult' = IF result' \in {"error", "running"} THEN result'
                  ELSE IF success THEN "success" ELSE "failure"
  /\ success' = (success /\ Remembers(result'))
  /\ credit' = CASE result' = "running" -> credit
                 [] result' = "error"   -> credit \/ SucceededInCycle
                 [] OTHER               -> FALSE

AnyNext ==
  \/ \E n \in 0..MaxChildren : AnyBegin(n)
  \/ \E c \in Children : AnyChild(c)
  \/ AnyReceive
  \/ AnyEnd

(* The ticks of the children return, and the caller is not suspended. *)
AnyFairness ==
  /\ \A c \in Children : WF_allVars(AnyChild(c))
  /\ WF_allVars(AnyReceive)
  /\ WF_allVars(AnyEnd)

AnySpec == AnyInit /\ [][AnyNext]_allVars /\ AnyFairness

-----------------------------------------------------------------------------
(* The success of a child whose answer has not been received. *)
Queued == \E i \in DOMAIN outputs : outputs[i].answer = "success"

(* Why: a success is known to the flag from the moment the child returns. *)
AnyInv ==
  /\ success \in BOOLEAN
  /\ success <=> \/ credit
                 \/ status # "none" /\ SucceededInCycle
                 \/ Queued

(* "overridden with a success if at least one child succeeded" (any.go:21-22):
   in a cycle that takes several ticks and whose children finish concurrently,
   Any succeeds exactly if one of them did, but for what any.go:56 leaves from
   a cycle that ended with an error. *)
CycleOverridden ==
  [][(AnyEnd /\ result' \notin {"error", "running"}) =>
       (anyResult' = "success" <=> credit \/ SucceededInCycle)]_allVars
=============================================================================
