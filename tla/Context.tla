------------------------------ MODULE Context ------------------------------
(***************************************************************************)
(* context.go: a Context whose methods are ticked by the goroutine of one  *)
(* tree, with an Async tick below it that is given the context:            *)
(* Async(c.Tick(fn)).  The steps of Async go on as they are; fn gets the   *)
(* context that c has when the goroutine of the execution calls it, which  *)
(* may be after the tree has ticked Init again.                            *)
(*                                                                         *)
(* context.Context is external: it is over once its cancel function was    *)
(* called, its parent is over or its deadline has passed.                  *)
(***************************************************************************)
EXTENDS Async

CONSTANTS
  Contexts,   \* names of contexts, used again when nobody has them
  NoContext   \* the nil context

ASSUME ContextAssumption == NoContext \notin Contexts

VARIABLES
  parent,     \* how c was configured, and what fn does
  ctx,        \* c.ctx, whose cancel function is c.cancel
  live,       \* the contexts that are not over
  given,      \* the context each execution has called fn with
  blocked     \* the tree is in Done

contextVars == <<parent, ctx, live, given, blocked>>
allVars == <<vars, contextVars>>

(* "returns": fn needs no context to return.  In the others it may wait until
   its context is over, which with "timeout" happens by itself. *)
Parents == {"returns", "cancel", "timeout"}

ContextInit ==
  /\ Init
  /\ parent \in Parents
  /\ ctx = NoContext
  /\ live = {}
  /\ given = [d \in Ids |-> NoContext]
  /\ blocked = FALSE

(* The others keep c as it is. *)
AsyncOnly == UNCHANGED contextVars
ContextOnly == UNCHANGED <<vars, parent>>

-----------------------------------------------------------------------------
(* Ticks of the tree *)

(* Mutant: the cancel function is lost before it was called. *)
KeepsLive == live

Cancelled == live \ {ctx}

Unused == Contexts \ ({ctx} \cup live \cup {given[d] : d \in Ids})

(* Init: the new context may be over from the start, as its parent is. *)
InitTick(new) ==
  /\ ~blocked
  /\ new \in Unused
  /\ ctx' = new
  /\ \/ live' = Cancelled \cup {new}
     \/ live' = Cancelled
  /\ ContextOnly /\ UNCHANGED <<given, blocked>>

CancelTick ==
  /\ ~blocked
  /\ live' = live \ {ctx}
  /\ ContextOnly /\ UNCHANGED <<ctx, given, blocked>>

(* What the tick Err returns. *)
Err == IF ctx = NoContext \/ ctx \notin live THEN "success" ELSE "failure"

(* Done blocks only on a context that is not over. *)
DoneTick ==
  /\ ~blocked
  /\ Err = "failure"
  /\ blocked' = TRUE
  /\ ContextOnly /\ UNCHANGED <<ctx, live, given>>

DoneReturns ==
  /\ blocked
  /\ ctx \notin live
  /\ blocked' = FALSE
  /\ ContextOnly /\ UNCHANGED <<ctx, live, given>>

(* The tick of Async; the tree has ticked Init before, or fn would be given a
   nil context. *)
AsyncTick == ~blocked /\ ctx # NoContext /\ Call /\ AsyncOnly

-----------------------------------------------------------------------------
(* The goroutine of an execution, and the end of contexts *)

(* Context.Tick reads c.ctx and calls fn. *)
CallFn(d) ==
  /\ work[d] = "ticking"
  /\ given[d] = NoContext
  /\ given' = [given EXCEPT ![d] = ctx]
  /\ ContextOnly /\ UNCHANGED <<ctx, live, blocked>>

FnReturns(d) ==
  /\ given[d] # NoContext
  /\ \E answer \in Answers : TickReturns(d, answer)
  /\ given' = [given EXCEPT ![d] = NoContext]
  /\ UNCHANGED <<parent, ctx, live, blocked>>

SendResult(d) == Send(d) /\ AsyncOnly

(* Mutant: contexts are never over by themselves. *)
NeverExpires(k) == FALSE /\ UNCHANGED allVars

(* The parent is over, or the deadline has passed. *)
Expire(k) ==
  /\ k \in live
  /\ live' = live \ {k}
  /\ ContextOnly /\ UNCHANGED <<ctx, given, blocked>>

ContextNext ==
  \/ \E new \in Contexts : InitTick(new)
  \/ CancelTick \/ DoneTick \/ DoneReturns \/ AsyncTick
  \/ \E d \in Ids : CallFn(d) \/ FnReturns(d) \/ SendResult(d)
  \/ \E k \in Contexts : Expire(k)

(* fn returns if it needs no context, or when its context is over. *)
FnMustReturn(d) == (parent = "returns" \/ given[d] \notin live) /\ FnReturns(d)

Fairness ==
  /\ \A d \in Ids : WF_allVars(CallFn(d)) /\ WF_allVars(FnMustReturn(d)) /\ WF_allVars(SendResult(d))
  /\ \A k \in Contexts : WF_allVars(parent = "timeout" /\ Expire(k))
  /\ WF_allVars(DoneReturns)

ContextSafeSpec == ContextInit /\ [][ContextNext]_allVars
ContextSpec == ContextSafeSpec /\ Fairness

-----------------------------------------------------------------------------
(* "Init may be ticked any number of times (each time triggering cancelation
   of any prior context)" (context.go:28): no context but the current one is
   ever left live, so that an asynchronous fn that was given an older one, or
   none yet, is not waiting for something nobody can cancel any more. *)
OnlyCurrentLive ==
  /\ live \subseteq {ctx}
  /\ \A d \in Ids : given[d] \notin {NoContext, ctx} => given[d] \notin live

(* "triggering cancelation", seen from fn: one that waits for its context
   returns, and its execution ends, once Err succeeds or Init was ticked again,
   also if neither parent nor deadline ends the context. *)
CancelReachesFn ==
  \A d \in Ids :
    (given[d] # NoContext /\ (given[d] # ctx \/ Err = "success")) ~> work[d] = "none"

(* "operations with timeouts" (README.md:61-62): with a timeout no goroutine of
   Async is left, although fn waits for its context, Init replaces that, and
   nobody calls the tick again; whoever does gets the result; and a tree that
   is in Done, and so cannot tick Cancel, gets on. *)
ExecutionsEnd ==
  /\ parent # "cancel" => (NoGoroutineLeaks /\ ResultArrives)
  /\ parent = "timeout" => (blocked ~> ~blocked)
=============================================================================
