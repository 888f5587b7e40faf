------------------------------- MODULE Ticker -------------------------------
(***************************************************************************)
(* ticker.go: tickerCore, which ticks a node until it fails, is stopped or *)
(* its context ends, and tickerStopOnFailure built on it.                  *)
(*                                                                         *)
(* Goroutines: Runner executes tickerCore.run, the members of Stoppers     *)
(* call Stop, any number of times.  A tick that itself calls Stop is the   *)
(* case of a stopper that starts and ends within the tick.                 *)
(*                                                                         *)
(* Of time.Ticker the model keeps whether it is stopped and whether its    *)
(* channel is ready.  go.mod asks for a Go whose timer channels hold       *)
(* nothing back: after time.Ticker.Stop the channel is never ready.        *)
(***************************************************************************)
EXTENDS Naturals

CONSTANTS
  Runner,    \* the goroutine executing run
  Stoppers   \* goroutines that call Stop

ASSUME RunnerAssumption == Runner \notin Stoppers

VARIABLES
  pc,             \* where each goroutine is
  stopOnFailure,  \* made by NewTickerStopOnFailure, not by NewTicker
  ctx,            \* "live", or what ctx.Err returns
  timer,          \* the time.Ticker has not been stopped
  ready,          \* its channel has a value
  stop,           \* tickerCore.stop is closed
  once,           \* tickerCore.once
  local,          \* the variable err of run
  err,            \* tickerCore.err
  done,           \* tickerCore.done is closed
  outcome,        \* history: what the last tick of the node returned
  cause           \* history: which case of select ended the loop

channels == <<ctx, timer, ready, stop, once, done>>
history  == <<outcome, cause>>
vars == <<pc, stopOnFailure, channels, local, err, history>>

Procs == Stoppers \cup {Runner}

RunnerLabels  == {"select", "tick", "store", "stop", "stopClose", "cancel", "close", "end"}
StopperLabels == {"ready", "stop", "stopClose", "stopped"}

CtxErrors == {"Canceled", "DeadlineExceeded"}
Errs == CtxErrors \cup {"nodeError", "errExitOnFailure"}

(* What a tick of the node gives: an error, the status Failure, another one. *)
Outcomes == {"error", "failure", "other"}

TypeOK ==
  /\ pc \in [Procs -> RunnerLabels \cup StopperLabels]
  /\ pc[Runner] \in RunnerLabels
  /\ \A s \in Stoppers : pc[s] \in StopperLabels
  /\ stopOnFailure \in BOOLEAN
  /\ ctx \in {"live"} \cup CtxErrors
  /\ timer \in BOOLEAN
  /\ ready \in BOOLEAN
  /\ stop \in BOOLEAN
  /\ once \in {"new", "busy", "complete"}
  /\ local \in Errs \cup {"nil"}
  /\ err \in Errs \cup {"nil"}
  /\ done \in BOOLEAN
  /\ outcome \in Outcomes
  /\ cause \in {"none", "context", "stop", "node"}

Init ==
  /\ pc = [p \in Procs |-> IF p = Runner THEN "select" ELSE "ready"]
  /\ stopOnFailure \in BOOLEAN
  /\ ctx = "live"
  /\ timer = TRUE
  /\ ready = FALSE
  /\ stop = FALSE
  /\ once = "new"
  /\ local = "nil"
  /\ err = "nil"
  /\ done = FALSE
  /\ outcome = "other"
  /\ cause = "none"

At(p, label) == pc[p] = label
Goto(p, label) == pc' = [pc EXCEPT ![p] = label]

-----------------------------------------------------------------------------
(* tickerCore.run: the select.  Among the cases that are ready it takes    *)
(* any.                                                                    *)

(* Mutant: leaves the loop without the error of the context. *)
SelectDoneNoErr ==
  /\ At(Runner, "select")
  /\ ctx # "live"
  /\ cause' = "context"
  /\ Goto(Runner, "store")
  /\ UNCHANGED <<stopOnFailure, channels, local, err, outcome>>

(* Mutant: a tick that is due always comes first. *)
SelectDoneAfterTicks ==
  /\ At(Runner, "select")
  /\ ctx # "live" /\ ~ready
  /\ local' = ctx
  /\ cause' = "context"
  /\ Goto(Runner, "store")
  /\ UNCHANGED <<stopOnFailure, channels, err, outcome>>

SelectDone ==
  /\ At(Runner, "select")
  /\ ctx # "live"
  /\ local' = ctx
  /\ cause' = "context"
  /\ Goto(Runner, "store")
  /\ UNCHANGED <<stopOnFailure, channels, err, outcome>>

SelectStop ==
  /\ At(Runner, "select")
  /\ stop
  /\ cause' = "stop"
  /\ Goto(Runner, "store")
  /\ UNCHANGED <<stopOnFailure, channels, local, err, outcome>>

SelectTick ==
  /\ At(Runner, "select")
  /\ ready
  /\ ready' = FALSE
  /\ Goto(Runner, "tick")
  /\ UNCHANGED <<stopOnFailure, ctx, timer, stop, once, done, local, err, history>>

(* The error of a tick; NewTickerStopOnFailure turns a failure into one. *)
TickErr(o) ==
  CASE o = "error" -> "nodeError"
    [] o = "failure" /\ stopOnFailure -> "errExitOnFailure"
    [] OTHER -> "nil"

TickReturns(o) ==
  /\ At(Runner, "tick")
  /\ outcome' = o
  /\ local' = TickErr(o)
  /\ IF local' = "nil"
       THEN Goto(Runner, "select") /\ UNCHANGED cause
       ELSE Goto(Runner, "store") /\ cause' = "node"
  /\ UNCHANGED <<stopOnFailure, channels, err>>

-----------------------------------------------------------------------------
(* tickerCore.run: after the loop *)

StoreErr ==
  /\ At(Runner, "store")
  /\ err' = local
  /\ Goto(Runner, "stop")
  /\ UNCHANGED <<stopOnFailure, channels, local, history>>

CancelCtx ==
  /\ At(Runner, "cancel")
  /\ ctx' = IF ctx = "live" THEN "Canceled" ELSE ctx
  /\ Goto(Runner, "close")
  /\ UNCHANGED <<stopOnFailure, timer, ready, stop, once, done, local, err, history>>

CloseDone ==
  /\ At(Runner, "close")
  /\ done' = TRUE
  /\ Goto(Runner, "end")
  /\ UNCHANGED <<stopOnFailure, ctx, timer, ready, stop, once, local, err, history>>

-----------------------------------------------------------------------------
(* tickerCore.Stop, called by the user and by run *)

CallStop(s) ==
  /\ pc[s] \in {"ready", "stopped"}
  /\ Goto(s, "stop")
  /\ UNCHANGED <<stopOnFailure, channels, local, err, history>>

(* Where the caller of Stop goes on. *)
AfterStop(p) == IF p = Runner THEN "cancel" ELSE "stopped"

(* Mutant: Stop leaves the time.Ticker running. *)
EnterStopKeepsTimer(p) ==
  /\ At(p, "stop")
  /\ once = "new"
  /\ once' = "busy"
  /\ Goto(p, "stopClose")
  /\ UNCHANGED <<stopOnFailure, ctx, timer, ready, stop, done, local, err, history>>

EnterStop(p) ==
  /\ At(p, "stop")
  /\ once = "new"
  /\ once' = "busy"
  /\ timer' = FALSE
  /\ ready' = FALSE
  /\ Goto(p, "stopClose")
  /\ UNCHANGED <<stopOnFailure, ctx, stop, done, local, err, history>>

StopClose(p) ==
  /\ At(p, "stopClose")
  /\ stop' = TRUE
  /\ once' = "complete"
  /\ Goto(p, AfterStop(p))
  /\ UNCHANGED <<stopOnFailure, ctx, timer, ready, done, local, err, history>>

(* Mutant: a flag that is tested instead of sync.Once, so that nobody waits. *)
JoinStopNoWait(p) ==
  /\ At(p, "stop")
  /\ once # "new"
  /\ Goto(p, AfterStop(p))
  /\ UNCHANGED <<stopOnFailure, channels, local, err, history>>

(* sync.Once.Do returns to everyone else when the first call is over. *)
JoinStop(p) ==
  /\ At(p, "stop")
  /\ once = "complete"
  /\ Goto(p, AfterStop(p))
  /\ UNCHANGED <<stopOnFailure, channels, local, err, history>>

-----------------------------------------------------------------------------
(* The time.Ticker and the parent of the context *)

Fire ==
  /\ timer
  /\ ~ready
  /\ ready' = TRUE
  /\ UNCHANGED <<pc, stopOnFailure, ctx, timer, stop, once, done, local, err, history>>

EndCtx(e) ==
  /\ ctx = "live"
  /\ ctx' = e
  /\ UNCHANGED <<pc, stopOnFailure, timer, ready, stop, once, done, local, err, history>>

-----------------------------------------------------------------------------
(* tickerCore.Err and tickerStopOnFailure.Err *)
Err == IF stopOnFailure /\ err = "errExitOnFailure" THEN "nil" ELSE err

RunStep ==
  \/ SelectDone \/ SelectStop \/ SelectTick
  \/ \E o \in Outcomes : TickReturns(o)
  \/ StoreErr \/ CancelCtx \/ CloseDone

StopStep(p) == EnterStop(p) \/ StopClose(p) \/ JoinStop(p)

Next ==
  \/ RunStep
  \/ \E p \in Procs : StopStep(p)
  \/ \E s \in Stoppers : CallStop(s)
  \/ Fire
  \/ \E e \in CtxErrors : EndCtx(e)

Spec == Init /\ [][Next]_vars

(* Goroutines go on and a tick of the node returns.  select chooses with   *)
(* equal probability, so the case of the context cannot be passed over for *)
(* ever although ticks make it unavailable in between: strong fairness.    *)
Fairness ==
  /\ WF_vars(RunStep)
  /\ SF_vars(SelectDone)
  /\ \A p \in Procs : WF_vars(StopStep(p))

FairSpec == Spec /\ Fairness

-----------------------------------------------------------------------------
(* Safety *)

(* Done closes after everything else: "indicating that all resources have
   been freed" (ticker.go:68-69), also if someone else is in the middle of
   Stop when run gets to its own call of it. *)
FreedWhenDone ==
  done => /\ ~timer /\ ~ready
          /\ stop
          /\ once = "complete"
          /\ ctx # "live"

(* The error that Done makes available (ticker.go:67-68) is the reason why
   the loop ended, whatever else happened at the same time: the error of the
   tick, the error of the context, and none after a Stop or after the failure
   that NewTickerStopOnFailure waits for. *)
ErrIsTheCause ==
  done => Err = CASE cause = "context" -> ctx
                  [] cause = "node" /\ outcome = "error" -> "nodeError"
                  [] OTHER -> "nil"

Receive == At(Runner, "select") /\ At(Runner, "tick")'

(* "The node will tick until ... Ticker.Stop is called" (ticker.go:67): no tick
   starts once the stop channel is closed, although select would be free to
   prefer the time.Ticker. *)
NoTickAfterStop == [][stop => ~Receive]_vars

(* "The node will tick until the first error" (ticker.go:67), which for
   NewTickerStopOnFailure includes a failure. *)
NoTickAfterError ==
  [][(outcome = "error" \/ (stopOnFailure /\ outcome = "failure")) => ~Receive]_vars

(* The promise made to every user of a Ticker, the manager in particular. *)
Contract ==
  INSTANCE TickerContract WITH
    Errors   <- Errs \ {"errExitOnFailure"},
    NoError  <- "nil",
    working  <- At(Runner, "tick"),
    stopping <- stop,
    err      <- Err

TickerIsTicker == Contract!SafeSpec

-----------------------------------------------------------------------------
(* Liveness *)

(* Stop, the end of the context, and an error each end the ticker. *)
TickerEnds == (stop \/ ctx # "live" \/ local # "nil") ~> done
=============================================================================
