---------------------------- MODULE TickerProofs ----------------------------
(***************************************************************************)
(* That ticker.go keeps IInv, for any number of goroutines that call Stop, *)
(* and what follows from it: the type invariant, the safety properties of  *)
(* Ticker, and that it implements TickerContract.                          *)
(***************************************************************************)
EXTENDS TickerInv, TLAPS

(* Every step keeps the types. *)
LEMMA TypeStep ==
  ASSUME TypeOK, [Next]_vars
  PROVE  TypeOK'
<1> USE DEF TypeOK, channels, history, At, Goto, Procs,
           RunnerLabels, StopperLabels, Errs, Outcomes
<1>1. ASSUME SelectDone PROVE TypeOK'
  BY <1>1, RunnerAssumption DEF SelectDone
<1>2. ASSUME SelectStop PROVE TypeOK'
  BY <1>2, RunnerAssumption DEF SelectStop
<1>3. ASSUME SelectTick PROVE TypeOK'
  <2>1. /\ pc' \in [Procs -> RunnerLabels \cup StopperLabels]
        /\ pc'[Runner] \in RunnerLabels
        /\ \A s \in Stoppers : pc'[s] \in StopperLabels
    BY <1>3, RunnerAssumption DEF SelectTick
  <2>2. UNCHANGED <<stopOnFailure, ctx, timer, stop, once, done, local, err, outcome, cause>>
    BY <1>3 DEF SelectTick
  <2>3. ready' \in BOOLEAN
    BY <1>3 DEF SelectTick
  <2> QED
    BY <2>1, <2>2, <2>3
<1>4. ASSUME NEW o \in Outcomes, TickReturns(o) PROVE TypeOK'
  BY <1>4, RunnerAssumption DEF TickReturns, TickErr
<1>5. ASSUME StoreErr PROVE TypeOK'
  BY <1>5, RunnerAssumption DEF StoreErr
<1>6. ASSUME CancelCtx PROVE TypeOK'
  <2>1. ctx' \in {"live"} \cup CtxErrors
    BY <1>6 DEF CancelCtx, CtxErrors
  <2> QED
    BY <1>6, <2>1, RunnerAssumption DEF CancelCtx
<1>7. ASSUME CloseDone PROVE TypeOK'
  BY <1>7, RunnerAssumption DEF CloseDone
<1>8. ASSUME NEW p \in Procs, EnterStop(p) PROVE TypeOK'
  BY <1>8, RunnerAssumption DEF EnterStop
<1>9. ASSUME NEW p \in Procs, StopClose(p) PROVE TypeOK'
  BY <1>9, RunnerAssumption DEF StopClose, AfterStop
<1>10. ASSUME NEW p \in Procs, JoinStop(p) PROVE TypeOK'
  BY <1>10, RunnerAssumption DEF JoinStop, AfterStop
<1>11. ASSUME NEW s \in Stoppers, CallStop(s) PROVE TypeOK'
  BY <1>11, RunnerAssumption DEF CallStop
<1>12. ASSUME Fire PROVE TypeOK'
  BY <1>12 DEF Fire
<1>13. ASSUME NEW e \in CtxErrors, EndCtx(e) PROVE TypeOK'
  BY <1>13 DEF EndCtx
<1>14. CASE UNCHANGED vars
  BY <1>14 DEF vars
<1> QED
  BY <1>1, <1>2, <1>3, <1>4, <1>5, <1>6, <1>7, <1>8, <1>9, <1>10, <1>11, <1>12, <1>13, <1>14
     DEF Next, RunStep, StopStep

(* sync.Once lets one goroutine stop the time.Ticker and then close stop
   (ticker.go:159-164). *)
LEMMA OnceStep ==
  ASSUME TypeOK, OnceInv, [Next]_vars
  PROVE  OnceInv'
<1> USE DEF TypeOK, channels, history, At, Goto, Procs,
           RunnerLabels, StopperLabels, OnceInv
<1>1. ASSUME SelectDone PROVE OnceInv'
  BY <1>1, RunnerAssumption DEF SelectDone
<1>2. ASSUME SelectStop PROVE OnceInv'
  BY <1>2, RunnerAssumption DEF SelectStop
<1>3. ASSUME SelectTick PROVE OnceInv'
  BY <1>3, RunnerAssumption DEF SelectTick
<1>4. ASSUME NEW o \in Outcomes, TickReturns(o) PROVE OnceInv'
  BY <1>4, RunnerAssumption DEF TickReturns, TickErr
<1>5. ASSUME StoreErr PROVE OnceInv'
  BY <1>5, RunnerAssumption DEF StoreErr
<1>6. ASSUME CancelCtx PROVE OnceInv'
  BY <1>6, RunnerAssumption DEF CancelCtx
<1>7. ASSUME CloseDone PROVE OnceInv'
  BY <1>7, RunnerAssumption DEF CloseDone
<1>8. ASSUME NEW p \in Procs, EnterStop(p) PROVE OnceInv'
  BY <1>8, RunnerAssumption DEF EnterStop
<1>9. ASSUME NEW p \in Procs, StopClose(p) PROVE OnceInv'
  BY <1>9, RunnerAssumption DEF StopClose, AfterStop
<1>10. ASSUME NEW p \in Procs, JoinStop(p) PROVE OnceInv'
  BY <1>10, RunnerAssumption DEF JoinStop, AfterStop
<1>11. ASSUME NEW s \in Stoppers, CallStop(s) PROVE OnceInv'
  BY <1>11, RunnerAssumption DEF CallStop
<1>12. ASSUME Fire PROVE OnceInv'
  BY <1>12 DEF Fire
<1>13. ASSUME NEW e \in CtxErrors, EndCtx(e) PROVE OnceInv'
  BY <1>13 DEF EndCtx
<1>14. CASE UNCHANGED vars
  BY <1>14 DEF vars
<1> QED
  BY <1>1, <1>2, <1>3, <1>4, <1>5, <1>6, <1>7, <1>8, <1>9, <1>10, <1>11, <1>12, <1>13, <1>14
     DEF Next, RunStep, StopStep

(* A stopped time.Ticker has nothing to deliver (ticker.go:161). *)
LEMMA TimerStep ==
  ASSUME TypeOK, TimerInv, [Next]_vars
  PROVE  TimerInv'
<1> USE DEF TypeOK, channels, history, At, Goto, Procs, TimerInv
<1>1. ASSUME SelectDone PROVE TimerInv'
  BY <1>1 DEF SelectDone
<1>2. ASSUME SelectStop PROVE TimerInv'
  BY <1>2 DEF SelectStop
<1>3. ASSUME SelectTick PROVE TimerInv'
  BY <1>3 DEF SelectTick
<1>4. ASSUME NEW o \in Outcomes, TickReturns(o) PROVE TimerInv'
  BY <1>4 DEF TickReturns, TickErr
<1>5. ASSUME StoreErr PROVE TimerInv'
  BY <1>5 DEF StoreErr
<1>6. ASSUME CancelCtx PROVE TimerInv'
  BY <1>6 DEF CancelCtx
<1>7. ASSUME CloseDone PROVE TimerInv'
  BY <1>7 DEF CloseDone
<1>8. ASSUME NEW p \in Procs, EnterStop(p) PROVE TimerInv'
  BY <1>8 DEF EnterStop
<1>9. ASSUME NEW p \in Procs, StopClose(p) PROVE TimerInv'
  BY <1>9 DEF StopClose, AfterStop
<1>10. ASSUME NEW p \in Procs, JoinStop(p) PROVE TimerInv'
  BY <1>10 DEF JoinStop, AfterStop
<1>11. ASSUME NEW s \in Stoppers, CallStop(s) PROVE TimerInv'
  BY <1>11 DEF CallStop
<1>12. ASSUME Fire PROVE TimerInv'
  BY <1>12 DEF Fire
<1>13. ASSUME NEW e \in CtxErrors, EndCtx(e) PROVE TimerInv'
  BY <1>13 DEF EndCtx
<1>14. CASE UNCHANGED vars
  BY <1>14 DEF vars
<1> QED
  BY <1>1, <1>2, <1>3, <1>4, <1>5, <1>6, <1>7, <1>8, <1>9, <1>10, <1>11, <1>12, <1>13, <1>14
     DEF Next, RunStep, StopStep

(* run has waited for Stop and ended the context before it closes done
   (ticker.go:144-146). *)
LEMMA RunInvStep ==
  ASSUME TypeOK, OnceInv, RunInv, [Next]_vars
  PROVE  RunInv'
<1> USE DEF TypeOK, channels, history, At, Goto, Procs,
           RunnerLabels, StopperLabels, OnceInv, RunInv, PastStop
<1>1. ASSUME SelectDone PROVE RunInv'
  BY <1>1, RunnerAssumption DEF SelectDone
<1>2. ASSUME SelectStop PROVE RunInv'
  BY <1>2, RunnerAssumption DEF SelectStop
<1>3. ASSUME SelectTick PROVE RunInv'
  BY <1>3, RunnerAssumption DEF SelectTick
<1>4. ASSUME NEW o \in Outcomes, TickReturns(o) PROVE RunInv'
  BY <1>4, RunnerAssumption DEF TickReturns, TickErr
<1>5. ASSUME StoreErr PROVE RunInv'
  BY <1>5, RunnerAssumption DEF StoreErr
<1>6. ASSUME CancelCtx PROVE RunInv'
  BY <1>6, RunnerAssumption DEF CancelCtx
<1>7. ASSUME CloseDone PROVE RunInv'
  BY <1>7, RunnerAssumption DEF CloseDone
<1>8. ASSUME NEW p \in Procs, EnterStop(p) PROVE RunInv'
  BY <1>8, RunnerAssumption DEF EnterStop
<1>9. ASSUME NEW p \in Procs, StopClose(p) PROVE RunInv'
  BY <1>9, RunnerAssumption DEF StopClose, AfterStop
<1>10. ASSUME NEW p \in Procs, JoinStop(p) PROVE RunInv'
  BY <1>10, RunnerAssumption DEF JoinStop, AfterStop
<1>11. ASSUME NEW s \in Stoppers, CallStop(s) PROVE RunInv'
  BY <1>11, RunnerAssumption DEF CallStop
<1>12. ASSUME Fire PROVE RunInv'
  BY <1>12 DEF Fire
<1>13. ASSUME NEW e \in CtxErrors, EndCtx(e) PROVE RunInv'
  BY <1>13 DEF EndCtx
<1>14. CASE UNCHANGED vars
  BY <1>14 DEF vars
<1> QED
  BY <1>1, <1>2, <1>3, <1>4, <1>5, <1>6, <1>7, <1>8, <1>9, <1>10, <1>11, <1>12, <1>13, <1>14
     DEF Next, RunStep, StopStep

(* run keeps the reason why it left the loop, and stores it (ticker.go:130-143). *)
LEMMA CauseStep ==
  ASSUME TypeOK, CauseInv, [Next]_vars
  PROVE  CauseInv'
<1> USE DEF TypeOK, channels, history, At, Goto, Procs,
           RunnerLabels, StopperLabels, CauseInv, Finding, TickErr, CtxErrors
<1>1. ASSUME SelectDone PROVE CauseInv'
  BY <1>1, RunnerAssumption DEF SelectDone
<1>2. ASSUME SelectStop PROVE CauseInv'
  BY <1>2, RunnerAssumption DEF SelectStop
<1>3. ASSUME SelectTick PROVE CauseInv'
  BY <1>3, RunnerAssumption DEF SelectTick
<1>4. ASSUME NEW o \in Outcomes, TickReturns(o) PROVE CauseInv'
  BY <1>4, RunnerAssumption DEF TickReturns, TickErr
<1>5. ASSUME StoreErr PROVE CauseInv'
  BY <1>5, RunnerAssumption DEF StoreErr
<1>6. ASSUME CancelCtx PROVE CauseInv'
  BY <1>6, RunnerAssumption DEF CancelCtx
<1>7. ASSUME CloseDone PROVE CauseInv'
  BY <1>7, RunnerAssumption DEF CloseDone
<1>8. ASSUME NEW p \in Procs, EnterStop(p) PROVE CauseInv'
  BY <1>8, RunnerAssumption DEF EnterStop
<1>9. ASSUME NEW p \in Procs, StopClose(p) PROVE CauseInv'
  BY <1>9, RunnerAssumption DEF StopClose, AfterStop
<1>10. ASSUME NEW p \in Procs, JoinStop(p) PROVE CauseInv'
  BY <1>10, RunnerAssumption DEF JoinStop, AfterStop
<1>11. ASSUME NEW s \in Stoppers, CallStop(s) PROVE CauseInv'
  BY <1>11, RunnerAssumption DEF CallStop
<1>12. ASSUME Fire PROVE CauseInv'
  BY <1>12 DEF Fire
<1>13. ASSUME NEW e \in CtxErrors, EndCtx(e) PROVE CauseInv'
  BY <1>13 DEF EndCtx
<1>14. CASE UNCHANGED vars
  BY <1>14 DEF vars
<1> QED
  BY <1>1, <1>2, <1>3, <1>4, <1>5, <1>6, <1>7, <1>8, <1>9, <1>10, <1>11, <1>12, <1>13, <1>14
     DEF Next, RunStep, StopStep

-----------------------------------------------------------------------------
(* The state right after NewTicker satisfies the invariant. *)
LEMMA InitIInv == Init => IInv
<1> SUFFICES ASSUME Init PROVE IInv
  OBVIOUS
<1> USE DEF Init, At, Procs
<1>1. TypeOK
  BY RunnerAssumption DEF TypeOK, RunnerLabels, StopperLabels, Errs, Outcomes
<1>2. OnceInv /\ TimerInv /\ RunInv
  BY RunnerAssumption DEF OnceInv, TimerInv, RunInv, PastStop
<1>3. CauseInv
  BY RunnerAssumption DEF CauseInv, Finding, TickErr
<1> QED
  BY <1>1, <1>2, <1>3 DEF IInv

(* Every step keeps it. *)
LEMMA NextIInv == IInv /\ [Next]_vars => IInv'
  BY TypeStep, OnceStep, TimerStep, RunInvStep, CauseStep DEF IInv

(* The state of a ticker keeps its types. *)
THEOREM TypeCorrect == Spec => []TypeOK
<1>1. Init => TypeOK
  BY InitIInv DEF IInv
<1>2. TypeOK /\ [Next]_vars => TypeOK'
  BY TypeStep
<1> QED
  BY <1>1, <1>2, PTL DEF Spec

(* IInv holds in every reachable state of ticker.go. *)
THEOREM Invariance == Spec => []IInv
  BY InitIInv, NextIInv, PTL DEF Spec

(* When done is closed the time.Ticker is stopped, the stop channel closed and
   the context over, whoever called Stop (ticker.go:144-146). *)
THEOREM Freed == Spec => []FreedWhenDone
<1>1. IInv => FreedWhenDone
  BY DEF IInv, TypeOK, FreedWhenDone, OnceInv, TimerInv, RunInv, PastStop, At
<1> QED
  BY <1>1, Invariance, PTL

(* The error that Done makes available is the reason why the loop ended
   (ticker.go:67-68, 141-143). *)
THEOREM TrueCause == Spec => []ErrIsTheCause
<1>1. IInv => ErrIsTheCause
  <2> SUFFICES ASSUME IInv, done PROVE ErrIsTheCause
    BY DEF ErrIsTheCause
  <2>1. err = Finding
    BY DEF IInv, RunInv, CauseInv, At
  <2>2. CASE cause = "context"
    <3>1. err = ctx /\ ctx # "errExitOnFailure"
      BY <2>1, <2>2 DEF Finding, IInv, TypeOK, CtxErrors
    <3> QED
      BY <2>2, <3>1 DEF ErrIsTheCause, Err
  <2>3. CASE cause = "node" /\ outcome = "error"
    <3>1. err = "nodeError"
      BY <2>1, <2>3 DEF Finding, TickErr
    <3> QED
      BY <2>3, <3>1 DEF ErrIsTheCause, Err
  <2>4. CASE cause = "node" /\ outcome # "error"
    <3>1. err = "errExitOnFailure" /\ stopOnFailure
      BY <2>1, <2>4 DEF Finding, TickErr, IInv, CauseInv
    <3> QED
      BY <2>4, <3>1 DEF ErrIsTheCause, Err
  <2>5. CASE cause \notin {"context", "node"}
    <3>1. err = "nil"
      BY <2>1, <2>5 DEF Finding
    <3> QED
      BY <2>5, <3>1 DEF ErrIsTheCause, Err
  <2> QED
    BY <2>2, <2>3, <2>4, <2>5
<1> QED
  BY <1>1, Invariance, PTL

(* A tick starts in one place only. *)
LEMMA ReceiveIsSelectTick ==
  ASSUME IInv, [Next]_vars, Receive
  PROVE  SelectTick
<1> USE DEF Receive, At, Goto, Procs, IInv, TypeOK
<1>1. At(Runner, "select") /\ pc' # pc
  OBVIOUS
<1>2. ASSUME NEW o \in Outcomes PROVE ~TickReturns(o)
  BY <1>1 DEF TickReturns
<1>3. ASSUME NEW p \in Procs, StopStep(p) PROVE FALSE
  BY <1>1, <1>3 DEF StopStep, EnterStop, StopClose, JoinStop, AfterStop
<1>4. ASSUME NEW s \in Stoppers, CallStop(s) PROVE FALSE
  BY <1>1, <1>4, RunnerAssumption DEF CallStop
<1>5. ~SelectDone /\ ~SelectStop /\ ~StoreErr /\ ~CancelCtx /\ ~CloseDone
  BY <1>1 DEF SelectDone, SelectStop, StoreErr, CancelCtx, CloseDone
<1>6. ~Fire /\ ~(\E e \in CtxErrors : EndCtx(e)) /\ ~UNCHANGED vars
  BY <1>1 DEF Fire, EndCtx, vars
<1> QED
  BY <1>2, <1>3, <1>4, <1>5, <1>6 DEF Next, RunStep

(* No tick starts after the stop channel is closed (ticker.go:67, 161-162). *)
THEOREM StoppedForGood == Spec => NoTickAfterStop
<1>1. IInv /\ [Next]_vars => (stop => ~Receive)
  <2> SUFFICES ASSUME IInv, [Next]_vars, stop, Receive PROVE FALSE
    OBVIOUS
  <2>1. ready
    BY ReceiveIsSelectTick DEF SelectTick
  <2>2. ~timer
    BY DEF IInv, OnceInv
  <2> QED
    BY <2>1, <2>2 DEF IInv, TimerInv
<1> QED
  BY <1>1, Invariance, PTL DEF Spec, NoTickAfterStop

(* No tick starts after an error, or after the failure that
   NewTickerStopOnFailure waits for (ticker.go:67, 116-119, 136-138). *)
THEOREM FailedForGood == Spec => NoTickAfterError
<1>1. IInv /\ [Next]_vars =>
        ((outcome = "error" \/ (stopOnFailure /\ outcome = "failure")) => ~Receive)
  BY DEF IInv, CauseInv, TickErr, Receive, At
<1> QED
  BY <1>1, Invariance, PTL DEF Spec, NoTickAfterError

-----------------------------------------------------------------------------
(* Every step of the ticker is a step of the abstract Ticker, or leaves it   *)
(* alone.                                                                    *)
LEMMA StepIsTickerStep ==
  ASSUME IInv, [Next]_vars
  PROVE  [Contract!Next]_(Contract!vars)
<1> USE RunnerAssumption DEF channels, history, At, Goto, Procs, IInv, TypeOK
<1>1. ASSUME SelectDone \/ SelectStop PROVE UNCHANGED Contract!vars
  BY <1>1 DEF SelectDone, SelectStop, Err, Contract!vars
<1>2. ASSUME SelectTick PROVE Contract!Begin
  BY <1>2 DEF SelectTick, RunInv, Err, Contract!Begin
<1>3. ASSUME NEW o \in Outcomes, TickReturns(o) PROVE Contract!End
  BY <1>3 DEF TickReturns, Err, Contract!End
<1>4. ASSUME StoreErr PROVE [Contract!Report]_(Contract!vars)
  <2>1. ~done /\ err = "nil" /\ err' = local
    BY <1>4 DEF StoreErr, RunInv, CauseInv
  <2>2. UNCHANGED <<stop, done, stopOnFailure>> /\ ~At(Runner, "tick") /\ ~At(Runner, "tick")'
    BY <1>4 DEF StoreErr
  <2>3. CASE Err' = "nil"
    BY <2>1, <2>2, <2>3 DEF Err, Contract!vars
  <2>4. CASE Err' # "nil"
    <3>1. Err' \in (Errs \ {"errExitOnFailure"}) \ {"nil"}
      <4>1. local = "errExitOnFailure" => stopOnFailure
        BY DEF CauseInv, Finding, TickErr, CtxErrors
      <4> QED
        BY <2>1, <2>2, <2>4, <4>1 DEF Err
    <3> QED
      BY <2>1, <2>2, <3>1 DEF Contract!Report
  <2> QED
    BY <2>3, <2>4
<1>5. ASSUME CancelCtx PROVE UNCHANGED Contract!vars
  BY <1>5 DEF CancelCtx, Err, Contract!vars
<1>6. ASSUME CloseDone PROVE Contract!Close
  BY <1>6 DEF CloseDone, RunInv, PastStop, Err, Contract!Close
<1>7. ASSUME NEW p \in Procs, EnterStop(p) \/ JoinStop(p) PROVE UNCHANGED Contract!vars
  BY <1>7 DEF EnterStop, JoinStop, AfterStop, Err, Contract!vars
<1>8. ASSUME NEW p \in Procs, StopClose(p) PROVE Contract!BeginStop
  BY <1>8 DEF StopClose, AfterStop, Err, Contract!BeginStop
<1>9. ASSUME NEW s \in Stoppers, CallStop(s) PROVE UNCHANGED Contract!vars
  BY <1>9 DEF CallStop, Err, Contract!vars
<1>10. ASSUME Fire \/ \E e \in CtxErrors : EndCtx(e) PROVE UNCHANGED Contract!vars
  BY <1>10 DEF Fire, EndCtx, Err, Contract!vars
<1>11. CASE UNCHANGED vars
  BY <1>11 DEF vars, Err, Contract!vars
<1> QED
  BY <1>1, <1>2, <1>3, <1>4, <1>5, <1>6, <1>7, <1>8, <1>9, <1>10, <1>11
     DEF Next, RunStep, StopStep, Contract!Next

(* tickerCore and tickerStopOnFailure implement the Ticker interface
   (ticker.go:28-37). *)
THEOREM Refinement == Spec => TickerIsTicker
<1>1. Init => Contract!Init
  BY RunnerAssumption DEF Init, Contract!Init, Err, At, Procs
<1>2. IInv /\ [Next]_vars => [Contract!Next]_(Contract!vars)
  BY StepIsTickerStep
<1> QED
  BY <1>1, <1>2, Invariance, PTL DEF Spec, TickerIsTicker, Contract!SafeSpec
=============================================================================
