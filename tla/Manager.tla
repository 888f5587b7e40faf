------------------------------ MODULE Manager ------------------------------
(***************************************************************************)
(* manager.go: an aggregate of tickers, itself a Ticker.                   *)
(*                                                                         *)
(* Goroutines: a slot of Callers makes calls of Add, one after the other;  *)
(* when a call is accepted the slot becomes the handle goroutine of the    *)
(* ticker it added and is free again when handle has returned.  A member   *)
(* of Stoppers makes calls of Stop.  One more goroutine is the worker that *)
(* executes manager.run.                                                   *)
(*                                                                         *)
(* bigbuff.Worker is not part of the repository.  manager.go relies on it  *)
(* for this: Do returns a release function and keeps one goroutine running *)
(* run; when every release function has been called the stop channel of    *)
(* that goroutine is closed; the next Do starts a new one, and does so     *)
(* only after the previous one has returned.                               *)
(***************************************************************************)
EXTENDS Naturals, Sequences

CONSTANTS
  Callers,   \* goroutines that call Add, and the handle goroutines
  Stoppers,  \* goroutines that call Stop
  Tickers    \* the tickers that are added; one may be added several times

ASSUME DisjointAssumption == Callers \cap Stoppers = {}

VARIABLES
  pc,          \* where each goroutine is
  arg,         \* the ticker each Add call or handle goroutine is about
  result,      \* what the last Add call of each caller returned
  stop,        \* manager.stop is closed
  done,        \* manager.done is closed
  errs,        \* manager.errs, an error standing for the ticker it came from
  once,        \* manager.once
  run,         \* where the goroutine executing manager.run is
  refs,        \* the release functions of manager.worker not yet called
  runStop,     \* the stop channel passed to run is closed
  finished,    \* per ticker: its Done channel is closed
  failed,      \* per ticker: its Err is not nil
  asked,       \* per ticker: its Stop was called
  panicked,    \* a closed channel was closed again
  registered,  \* history: the tickers for which Add has returned nil
  late         \* history: the slots whose Add began after stop was closed

goroutines == <<pc, arg, result>>
manager    == <<stop, done, errs, once>>
worker     == <<run, refs, runStop>>
tickers    == <<finished, failed, asked>>
history    == <<registered, late>>
vars == <<goroutines, manager, worker, tickers, panicked, history>>

Procs == Callers \cup Stoppers

(* The labels of Add, of handle, and of Stop. *)
AddLabels    == {"check", "send", "reject", "report"}
HandleLabels == {"watch", "await", "collect", "append", "release"}
StopLabels   == {"stop", "stopStart", "stopDone"}

CallerLabels  == {"ready"} \cup AddLabels \cup HandleLabels \cup StopLabels
StopperLabels == {"ready", "stopped"} \cup StopLabels

Ref == {"add", "stop"} \X Procs

TypeOK ==
  /\ pc \in [Procs -> CallerLabels \cup StopperLabels]
  /\ \A c \in Callers : pc[c] \in CallerLabels
  /\ \A s \in Stoppers : pc[s] \in StopperLabels
  /\ arg \in [Callers -> Tickers]
  /\ result \in [Callers -> {"none", "nilTicker", "ok", "stopped", "stoppedByError"}]
  /\ stop \in BOOLEAN
  /\ done \in BOOLEAN
  /\ errs \in Seq(Tickers)
  /\ once \in {"new", "busy", "complete"}
  /\ run \in {"idle", "select", "stopped", "closing"}
  /\ refs \subseteq Ref
  /\ runStop \in BOOLEAN
  /\ finished \in [Tickers -> BOOLEAN]
  /\ failed \in [Tickers -> BOOLEAN]
  /\ asked \in [Tickers -> BOOLEAN]
  /\ panicked \in BOOLEAN
  /\ registered \subseteq Tickers
  /\ late \subseteq Callers

Init ==
  /\ pc = [p \in Procs |-> "ready"]
  /\ arg \in [Callers -> Tickers]
  /\ result = [c \in Callers |-> "none"]
  /\ stop = FALSE
  /\ done = FALSE
  /\ errs = <<>>
  /\ once = "new"
  /\ run = "idle"
  /\ refs = {}
  /\ runStop = FALSE
  /\ finished = [t \in Tickers |-> FALSE]
  /\ failed = [t \in Tickers |-> FALSE]
  /\ asked = [t \in Tickers |-> FALSE]
  /\ panicked = FALSE
  /\ registered = {}
  /\ late = {}

Goto(p, label) == pc' = [pc EXCEPT ![p] = label]

At(p, label) == pc[p] = label

-----------------------------------------------------------------------------
(* bigbuff.Worker *)

Do(ref) ==
  /\ ~runStop
  /\ refs' = refs \cup {ref}
  /\ run' = IF run = "idle" THEN "select" ELSE run
  /\ UNCHANGED runStop

Release(ref) ==
  /\ refs' = refs \ {ref}
  /\ runStop' = (refs' = {})
  /\ UNCHANGED run

RunReturns ==
  /\ run' = "idle"
  /\ runStop' = FALSE
  /\ UNCHANGED refs

-----------------------------------------------------------------------------
(* manager.Add *)

AddNil(c) ==
  /\ At(c, "ready")
  /\ result' = [result EXCEPT ![c] = "nilTicker"]
  /\ UNCHANGED <<pc, arg, manager, worker, tickers, panicked, history>>

AddCall(c, t) ==
  /\ At(c, "ready")
  /\ Do(<<"add", c>>)
  /\ arg' = [arg EXCEPT ![c] = t]
  /\ late' = IF stop THEN late \cup {c} ELSE late \ {c}
  /\ Goto(c, "check")
  /\ UNCHANGED <<result, manager, tickers, panicked, registered>>

(* The outer select, which does not wait. *)
CheckStop(c) ==
  /\ At(c, "check")
  /\ Goto(c, IF stop THEN "reject" ELSE "send")
  /\ UNCHANGED <<arg, result, manager, worker, tickers, panicked, history>>

(* The inner select, when stop is closed. *)
SendStopped(c) ==
  /\ At(c, "send")
  /\ stop
  /\ Goto(c, "reject")
  /\ UNCHANGED <<arg, result, manager, worker, tickers, panicked, history>>

(* The inner select, when run receives: Add returns and handle starts. *)
Accept(c) ==
  /\ At(c, "send")
  /\ run = "select"
  /\ registered' = registered \cup {arg[c]}
  /\ result' = [result EXCEPT ![c] = "ok"]
  /\ Goto(c, "watch")
  /\ UNCHANGED <<arg, manager, worker, tickers, panicked, late>>

Reject(c) ==
  /\ At(c, "reject")
  /\ Release(<<"add", c>>)
  /\ Goto(c, "report")
  /\ UNCHANGED <<arg, result, manager, tickers, panicked, history>>

ReportStopped(c) ==
  /\ At(c, "report")
  /\ result' = [result EXCEPT ![c] =
                  IF errs # <<>> THEN "stoppedByError" ELSE "stopped"]
  /\ Goto(c, "ready")
  /\ UNCHANGED <<arg, manager, worker, tickers, panicked, history>>

-----------------------------------------------------------------------------
(* manager.handle *)

AskToStop(t) == asked' = [asked EXCEPT ![t] = TRUE]

WatchDone(c) ==
  /\ At(c, "watch")
  /\ finished[arg[c]]
  /\ AskToStop(arg[c])
  /\ Goto(c, "collect")
  /\ UNCHANGED <<arg, result, manager, worker, finished, failed, panicked, history>>

(* Mutant: handle does not wait for a ticker it has stopped. *)
WatchStopNoWait(c) ==
  /\ At(c, "watch")
  /\ stop
  /\ AskToStop(arg[c])
  /\ Goto(c, "collect")
  /\ UNCHANGED <<arg, result, manager, worker, finished, failed, panicked, history>>

WatchStop(c) ==
  /\ At(c, "watch")
  /\ stop
  /\ AskToStop(arg[c])
  /\ Goto(c, "await")
  /\ UNCHANGED <<arg, result, manager, worker, finished, failed, panicked, history>>

Await(c) ==
  /\ At(c, "await")
  /\ finished[arg[c]]
  /\ Goto(c, "collect")
  /\ UNCHANGED <<arg, result, manager, worker, tickers, panicked, history>>

(* Mutant: once the manager is stopping, errors are ignored. *)
CollectUnlessStopping(c) ==
  /\ At(c, "collect")
  /\ Goto(c, IF failed[arg[c]] /\ ~stop THEN "append" ELSE "release")
  /\ UNCHANGED <<arg, result, manager, worker, tickers, panicked, history>>

Collect(c) ==
  /\ At(c, "collect")
  /\ Goto(c, IF failed[arg[c]] THEN "append" ELSE "release")
  /\ UNCHANGED <<arg, result, manager, worker, tickers, panicked, history>>

(* Mutant: the result of append is lost. *)
AppendErrLost(c) ==
  /\ At(c, "append")
  /\ Goto(c, "stop")
  /\ UNCHANGED <<arg, result, manager, worker, tickers, panicked, history>>

(* Mutant: an error does not stop the manager. *)
AppendErrNoStop(c) ==
  /\ At(c, "append")
  /\ errs' = Append(errs, arg[c])
  /\ Goto(c, "release")
  /\ UNCHANGED <<arg, result, stop, done, once, worker, tickers, panicked, history>>

AppendErr(c) ==
  /\ At(c, "append")
  /\ errs' = Append(errs, arg[c])
  /\ Goto(c, "stop")
  /\ UNCHANGED <<arg, result, stop, done, once, worker, tickers, panicked, history>>

HandleDone(c) ==
  /\ At(c, "release")
  /\ Release(<<"add", c>>)
  /\ Goto(c, "ready")
  /\ UNCHANGED <<arg, result, manager, tickers, panicked, history>>

-----------------------------------------------------------------------------
(* manager.Stop: called by the user, and by handle after an error *)

CallStop(s) ==
  /\ pc[s] \in {"ready", "stopped"}
  /\ Goto(s, "stop")
  /\ UNCHANGED <<arg, result, manager, worker, tickers, panicked, history>>

CloseStop ==
  /\ stop' = TRUE
  /\ panicked' = (panicked \/ stop)

(* Where the caller of Stop goes on. *)
AfterStop(p) == IF p \in Callers THEN "release" ELSE "stopped"

(* Mutant: Stop does not start the worker that closes done. *)
EnterStopNoStart(p) ==
  /\ At(p, "stop")
  /\ once = "new"
  /\ once' = "complete"
  /\ CloseStop
  /\ Goto(p, AfterStop(p))
  /\ UNCHANGED <<arg, result, done, errs, worker, tickers, history>>

EnterStop(p) ==
  /\ At(p, "stop")
  /\ once = "new"
  /\ once' = "busy"
  /\ CloseStop
  /\ Goto(p, "stopStart")
  /\ UNCHANGED <<arg, result, done, errs, worker, tickers, history>>

StopStart(p) ==
  /\ At(p, "stopStart")
  /\ Do(<<"stop", p>>)
  /\ Goto(p, "stopDone")
  /\ UNCHANGED <<arg, result, manager, tickers, panicked, history>>

StopDone(p) ==
  /\ At(p, "stopDone")
  /\ Release(<<"stop", p>>)
  /\ once' = "complete"
  /\ Goto(p, AfterStop(p))
  /\ UNCHANGED <<arg, result, stop, done, errs, tickers, panicked, history>>

(* sync.Once.Do returns to everyone else when the first call is over. *)
JoinStop(p) ==
  /\ At(p, "stop")
  /\ once = "complete"
  /\ Goto(p, AfterStop(p))
  /\ UNCHANGED <<arg, result, manager, worker, tickers, panicked, history>>

-----------------------------------------------------------------------------
(* manager.run; receiving from manager.tickers is Accept *)

RunStopped ==
  /\ run = "select"
  /\ runStop
  /\ run' = "stopped"
  /\ UNCHANGED <<goroutines, manager, refs, runStop, tickers, panicked, history>>

(* Mutant: run closes done whether or not the manager was stopped. *)
RunCheckNoStop ==
  /\ run = "stopped"
  /\ run' = "closing"
  /\ UNCHANGED <<refs, runStop, goroutines, manager, tickers, panicked, history>>

RunCheck ==
  /\ run = "stopped"
  /\ IF stop THEN run' = "closing" /\ UNCHANGED <<refs, runStop>> ELSE RunReturns
  /\ UNCHANGED <<goroutines, manager, tickers, panicked, history>>

CloseDone ==
  /\ done' = TRUE
  /\ panicked' = (panicked \/ done)

(* Mutant: run goes on after it has closed done. *)
RunCloseGoesOn ==
  /\ run = "closing"
  /\ IF done THEN UNCHANGED <<done, panicked>> ELSE CloseDone
  /\ run' = "select"
  /\ UNCHANGED <<goroutines, stop, errs, once, refs, runStop, tickers, history>>

(* Mutant: run does not look whether done is closed already. *)
RunCloseBlind ==
  /\ run = "closing"
  /\ CloseDone
  /\ RunReturns
  /\ UNCHANGED <<goroutines, stop, errs, once, tickers, history>>

RunClose ==
  /\ run = "closing"
  /\ IF done THEN UNCHANGED <<done, panicked>> ELSE CloseDone
  /\ RunReturns
  /\ UNCHANGED <<goroutines, stop, errs, once, tickers, history>>

-----------------------------------------------------------------------------
(* The tickers, by the contract of the Ticker interface: they may finish,  *)
(* with or without an error, at any time.                                  *)
Finish(t, withError) ==
  /\ ~finished[t]
  /\ finished' = [finished EXCEPT ![t] = TRUE]
  /\ failed' = [failed EXCEPT ![t] = withError]
  /\ UNCHANGED <<goroutines, manager, worker, asked, panicked, history>>

-----------------------------------------------------------------------------
Add(c) == AddNil(c) \/ \E t \in Tickers : AddCall(c, t)

AddStep(c) ==
  CheckStop(c) \/ SendStopped(c) \/ Accept(c) \/ Reject(c) \/ ReportStopped(c)

HandleStep(c) ==
  WatchDone(c) \/ WatchStop(c) \/ Await(c) \/ Collect(c) \/ AppendErr(c) \/ HandleDone(c)

StopStep(p) == EnterStop(p) \/ StopStart(p) \/ StopDone(p) \/ JoinStop(p)

RunStep == RunStopped \/ RunCheck \/ RunClose

TickerStep(t) == \E withError \in BOOLEAN : Finish(t, withError)

Next ==
  \/ \E c \in Callers : Add(c) \/ AddStep(c) \/ HandleStep(c)
  \/ \E s \in Stoppers : CallStop(s)
  \/ \E p \in Procs : StopStep(p)
  \/ RunStep
  \/ \E t \in Tickers : TickerStep(t)

Spec == Init /\ [][Next]_vars

(* Every started goroutine goes on, and a ticker that was told to stop     *)
(* finishes.  Nobody has to call Add or Stop, and a ticker nobody stops    *)
(* may run for ever.  Do waits for a lock that is handed over in turn, so  *)
(* StopStart is strongly fair.                                             *)
Fairness ==
  /\ \A c \in Callers : WF_vars(AddStep(c)) /\ WF_vars(HandleStep(c))
  /\ \A p \in Procs : WF_vars(StopStep(p)) /\ SF_vars(StopStart(p))
  /\ WF_vars(RunStep)
  /\ \A t \in Tickers : WF_vars(asked[t] /\ TickerStep(t))

FairSpec == Spec /\ Fairness
-----------------------------------------------------------------------------
(* Safety *)

Handling(c) == pc[c] \in HandleLabels \cup StopLabels

(* "The Done channel will close when ALL tickers registered with Add are
   done" (manager.go:62-63): once it is closed every ticker that Add ever
   accepted has finished, no handle goroutine is left, and no call of Add can
   still be accepted. *)
QuiescentWhenDone ==
  done => /\ \A t \in registered : finished[t]
          /\ \A c \in Callers : ~Handling(c) /\ ~At(c, "send")

Reported == {errs[i] : i \in 1..Len(errs)}

(* Err "will return a combined error if there are any" (manager.go:63-64):
   whoever waited for Done sees the error of every accepted ticker that had
   one, and no other error: handle must have appended before the worker could
   close done. *)
ErrorsCompleteWhenDone ==
  done => Reported = {t \in registered : failed[t]}

(* "Stopping will prevent further Add calls from succeeding" (manager.go:66):
   an Add that begins after stop was closed is refused, although the select
   it ends with would also have accepted it. *)
LateAddRefused == \A c \in late : ~Handling(c) /\ ~At(c, "send")

(* A refused Add returns the errors if there are any (manager.go:118-121): the
   plain ErrManagerStopped is only ever seen when a user called Stop, since
   handle records the error of a ticker before it stops the manager. *)
RefusalNamesCause ==
  (\E c \in Callers : result[c] = "stopped") => (\E s \in Stoppers : pc[s] # "ready")

(* Neither stop nor done is closed twice, for any order of Stop, of failing
   tickers and of workers started by calls of Add that come after the end. *)
NoPanic == ~panicked

(* The manager is a Ticker: it may be added to another manager. *)
Contract ==
  INSTANCE TickerContract WITH
    Errors   <- Seq(Tickers),
    NoError  <- <<>>,
    working  <- \E t \in registered : ~finished[t],
    stopping <- stop,
    err      <- errs

ManagerIsTicker == Contract!SafeSpec

-----------------------------------------------------------------------------
(* Liveness *)

(* "Any error (of any registered tickers) will also trigger stopping"
   (manager.go:65): the error of an accepted ticker stops the manager, and is
   reported. *)
ErrorStopsManager ==
  \A t \in Tickers : (t \in registered /\ failed[t]) ~> (stop /\ t \in Reported)

(* A call of Stop returns, also when it has to wait for the one that closes
   the channel, and when that one has to wait for the worker. *)
StopReturns == \A p \in Procs : At(p, "stop") ~> At(p, AfterStop(p))

AddsCease == <>[][\A c \in Callers : ~(At(c, "ready") /\ At(c, "check")')]_vars

(* Stop ends the manager, unless calls of Add keep coming for ever. *)
StopLeadsToDone == AddsCease => (stop ~> done)

AllFinished == \A t \in registered : finished[t]

(* manager.go:62-63 taken literally: "the Done channel will close when ALL
   tickers registered with Add are done". *)
DoneWhenAllFinished ==
  (AddsCease /\ <>[](registered # {} /\ AllFinished)) => <>done
=============================================================================
