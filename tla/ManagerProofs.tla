--------------------------- MODULE ManagerProofs ---------------------------
(***************************************************************************)
(* That manager.go keeps IInv, for any number of goroutines and tickers,   *)
(* and what follows from it: the type invariant and the safety properties  *)
(* of Manager.  One lemma per conjunct of IInv says which of the others it *)
(* rests on; in each there is one step per action.                         *)
(***************************************************************************)
EXTENDS ManagerInv, TLAPS

(* Every step keeps the types. *)
LEMMA TypeStep ==
  ASSUME TypeOK, [Next]_vars
  PROVE  TypeOK'
<1> USE DEF TypeOK, goroutines, manager, worker, tickers, history, At, Goto, Procs,
           CallerLabels, StopperLabels, AddLabels, HandleLabels, StopLabels
<1>1. ASSUME NEW c \in Callers, AddNil(c) PROVE TypeOK'
  BY <1>1 DEF AddNil
<1>2. ASSUME NEW c \in Callers, NEW t \in Tickers, AddCall(c, t) PROVE TypeOK'
  <2>1. <<"add", c>> \in Ref
    BY DEF Ref
  <2>2. refs' \subseteq Ref /\ run' \in {"idle", "select", "stopped", "closing"}
    BY <1>2, <2>1 DEF AddCall, Do
  <2>3. /\ pc' \in [Procs -> CallerLabels \cup StopperLabels]
        /\ \A d \in Callers : pc'[d] \in CallerLabels
        /\ \A s \in Stoppers : pc'[s] \in StopperLabels
    BY <1>2, DisjointAssumption DEF AddCall
  <2>4. arg' \in [Callers -> Tickers] /\ late' \subseteq Callers
    BY <1>2 DEF AddCall
  <2> QED
    BY <1>2, <2>2, <2>3, <2>4 DEF AddCall, Do
<1>3. ASSUME NEW c \in Callers, CheckStop(c) PROVE TypeOK'
  BY <1>3 DEF CheckStop
<1>4. ASSUME NEW c \in Callers, SendStopped(c) PROVE TypeOK'
  BY <1>4 DEF SendStopped
<1>5. ASSUME NEW c \in Callers, Accept(c) PROVE TypeOK'
  BY <1>5 DEF Accept
<1>6. ASSUME NEW c \in Callers, Reject(c) PROVE TypeOK'
  BY <1>6 DEF Reject, Release
<1>7. ASSUME NEW c \in Callers, ReportStopped(c) PROVE TypeOK'
  BY <1>7 DEF ReportStopped
<1>8. ASSUME NEW c \in Callers, WatchDone(c) PROVE TypeOK'
  BY <1>8 DEF WatchDone, AskToStop
<1>9. ASSUME NEW c \in Callers, WatchStop(c) PROVE TypeOK'
  BY <1>9 DEF WatchStop, AskToStop
<1>10. ASSUME NEW c \in Callers, Await(c) PROVE TypeOK'
  BY <1>10 DEF Await
<1>11. ASSUME NEW c \in Callers, Collect(c) PROVE TypeOK'
  BY <1>11 DEF Collect
<1>12. ASSUME NEW c \in Callers, AppendErr(c) PROVE TypeOK'
  BY <1>12 DEF AppendErr
<1>13. ASSUME NEW c \in Callers, HandleDone(c) PROVE TypeOK'
  BY <1>13 DEF HandleDone, Release
<1>14. ASSUME NEW s \in Stoppers, CallStop(s) PROVE TypeOK'
  BY <1>14 DEF CallStop
<1>15. ASSUME NEW p \in Procs, EnterStop(p) PROVE TypeOK'
  BY <1>15 DEF EnterStop, CloseStop
<1>16. ASSUME NEW p \in Procs, StopStart(p) PROVE TypeOK'
  <2>1. <<"stop", p>> \in Ref
    BY DEF Ref
  <2> QED
    BY <1>16, <2>1 DEF StopStart, Do
<1>17. ASSUME NEW p \in Procs, StopDone(p) PROVE TypeOK'
  <2>1. CASE p \in Callers
    BY <1>17, <2>1, DisjointAssumption DEF StopDone, Release, AfterStop
  <2>2. CASE p \notin Callers
    BY <1>17, <2>2 DEF StopDone, Release, AfterStop
  <2> QED
    BY <2>1, <2>2
<1>18. ASSUME NEW p \in Procs, JoinStop(p) PROVE TypeOK'
  <2>1. CASE p \in Callers
    BY <1>18, <2>1, DisjointAssumption DEF JoinStop, AfterStop
  <2>2. CASE p \notin Callers
    BY <1>18, <2>2 DEF JoinStop, AfterStop
  <2> QED
    BY <2>1, <2>2
<1>19. CASE RunStopped
  BY <1>19 DEF RunStopped
<1>20. CASE RunCheck
  BY <1>20 DEF RunCheck, RunReturns
<1>21. CASE RunClose
  BY <1>21 DEF RunClose, RunReturns, CloseDone
<1>22. ASSUME NEW t \in Tickers, NEW e \in BOOLEAN, Finish(t, e) PROVE TypeOK'
  BY <1>22 DEF Finish
<1>23. CASE UNCHANGED vars
  BY <1>23 DEF vars
<1> QED
  BY <1>1, <1>2, <1>3, <1>4, <1>5, <1>6, <1>7, <1>8, <1>9, <1>10, <1>11, <1>12,
     <1>13, <1>14, <1>15, <1>16, <1>17, <1>18, <1>19, <1>20, <1>21, <1>22, <1>23
     DEF Next, Add, AddStep, HandleStep, StopStep, RunStep, TickerStep

(* A goroutine that called Do holds its release function until it calls it, and
   no run is told to stop before (manager.go:104, 117, 162). *)
LEMMA RefsStep ==
  ASSUME TypeOK, RefsInv, [Next]_vars
  PROVE  RefsInv'
<1> USE DEF TypeOK, goroutines, manager, worker, tickers, history, At, Goto, Procs,
           CallerLabels, StopperLabels, AddLabels, HandleLabels, StopLabels, RefsInv, AddHolds, Handling
<1>1. ASSUME NEW c \in Callers, AddNil(c) PROVE RefsInv'
  BY <1>1 DEF AddNil
<1>2. ASSUME NEW c \in Callers, NEW t \in Tickers, AddCall(c, t) PROVE RefsInv'
  BY <1>2 DEF AddCall, Do
<1>3. ASSUME NEW c \in Callers, CheckStop(c) PROVE RefsInv'
  BY <1>3 DEF CheckStop
<1>4. ASSUME NEW c \in Callers, SendStopped(c) PROVE RefsInv'
  BY <1>4 DEF SendStopped
<1>5. ASSUME NEW c \in Callers, Accept(c) PROVE RefsInv'
  BY <1>5 DEF Accept
<1>6. ASSUME NEW c \in Callers, Reject(c) PROVE RefsInv'
  BY <1>6 DEF Reject, Release
<1>7. ASSUME NEW c \in Callers, ReportStopped(c) PROVE RefsInv'
  BY <1>7 DEF ReportStopped
<1>8. ASSUME NEW c \in Callers, WatchDone(c) PROVE RefsInv'
  BY <1>8 DEF WatchDone, AskToStop
<1>9. ASSUME NEW c \in Callers, WatchStop(c) PROVE RefsInv'
  BY <1>9 DEF WatchStop, AskToStop
<1>10. ASSUME NEW c \in Callers, Await(c) PROVE RefsInv'
  BY <1>10 DEF Await
<1>11. ASSUME NEW c \in Callers, Collect(c) PROVE RefsInv'
  BY <1>11 DEF Collect
<1>12. ASSUME NEW c \in Callers, AppendErr(c) PROVE RefsInv'
  BY <1>12 DEF AppendErr
<1>13. ASSUME NEW c \in Callers, HandleDone(c) PROVE RefsInv'
  BY <1>13 DEF HandleDone, Release
<1>14. ASSUME NEW s \in Stoppers, CallStop(s) PROVE RefsInv'
  BY <1>14, DisjointAssumption DEF CallStop
<1>15. ASSUME NEW p \in Procs, EnterStop(p) PROVE RefsInv'
  BY <1>15 DEF EnterStop, CloseStop
<1>16. ASSUME NEW p \in Procs, StopStart(p) PROVE RefsInv'
  BY <1>16 DEF StopStart, Do
<1>17. ASSUME NEW p \in Procs, StopDone(p) PROVE RefsInv'
  BY <1>17 DEF StopDone, Release, AfterStop
<1>18. ASSUME NEW p \in Procs, JoinStop(p) PROVE RefsInv'
  BY <1>18 DEF JoinStop, AfterStop
<1>19. CASE RunStopped
  BY <1>19 DEF RunStopped
<1>20. CASE RunCheck
  BY <1>20 DEF RunCheck, RunReturns
<1>21. CASE RunClose
  BY <1>21 DEF RunClose, RunReturns, CloseDone
<1>22. ASSUME NEW t \in Tickers, NEW e \in BOOLEAN, Finish(t, e) PROVE RefsInv'
  BY <1>22 DEF Finish
<1>23. CASE UNCHANGED vars
  BY <1>23 DEF vars
<1> QED
  BY <1>1, <1>2, <1>3, <1>4, <1>5, <1>6, <1>7, <1>8, <1>9, <1>10, <1>11, <1>12,
     <1>13, <1>14, <1>15, <1>16, <1>17, <1>18, <1>19, <1>20, <1>21, <1>22, <1>23
     DEF Next, Add, AddStep, HandleStep, StopStep, RunStep, TickerStep

(* run closes done only after it has seen both stop channels closed
   (manager.go:129-138); a release never reopens one. *)
LEMMA RunInvStep ==
  ASSUME TypeOK, RefsInv, RunInv, [Next]_vars
  PROVE  RunInv'
<1> USE DEF TypeOK, goroutines, manager, worker, tickers, history, At, Goto, Procs,
           CallerLabels, StopperLabels, AddLabels, HandleLabels, StopLabels, RefsInv, RunInv
<1>1. ASSUME NEW c \in Callers, AddNil(c) PROVE RunInv'
  BY <1>1 DEF AddNil
<1>2. ASSUME NEW c \in Callers, NEW t \in Tickers, AddCall(c, t) PROVE RunInv'
  BY <1>2 DEF AddCall, Do
<1>3. ASSUME NEW c \in Callers, CheckStop(c) PROVE RunInv'
  BY <1>3 DEF CheckStop
<1>4. ASSUME NEW c \in Callers, SendStopped(c) PROVE RunInv'
  BY <1>4 DEF SendStopped
<1>5. ASSUME NEW c \in Callers, Accept(c) PROVE RunInv'
  BY <1>5 DEF Accept
<1>6. ASSUME NEW c \in Callers, Reject(c) PROVE RunInv'
  BY <1>6 DEF Reject, Release
<1>7. ASSUME NEW c \in Callers, ReportStopped(c) PROVE RunInv'
  BY <1>7 DEF ReportStopped
<1>8. ASSUME NEW c \in Callers, WatchDone(c) PROVE RunInv'
  BY <1>8 DEF WatchDone, AskToStop
<1>9. ASSUME NEW c \in Callers, WatchStop(c) PROVE RunInv'
  BY <1>9 DEF WatchStop, AskToStop
<1>10. ASSUME NEW c \in Callers, Await(c) PROVE RunInv'
  BY <1>10 DEF Await
<1>11. ASSUME NEW c \in Callers, Collect(c) PROVE RunInv'
  BY <1>11 DEF Collect
<1>12. ASSUME NEW c \in Callers, AppendErr(c) PROVE RunInv'
  BY <1>12 DEF AppendErr
<1>13. ASSUME NEW c \in Callers, HandleDone(c) PROVE RunInv'
  BY <1>13 DEF HandleDone, Release
<1>14. ASSUME NEW s \in Stoppers, CallStop(s) PROVE RunInv'
  BY <1>14 DEF CallStop
<1>15. ASSUME NEW p \in Procs, EnterStop(p) PROVE RunInv'
  BY <1>15 DEF EnterStop, CloseStop
<1>16. ASSUME NEW p \in Procs, StopStart(p) PROVE RunInv'
  BY <1>16 DEF StopStart, Do
<1>17. ASSUME NEW p \in Procs, StopDone(p) PROVE RunInv'
  BY <1>17 DEF StopDone, Release, AfterStop
<1>18. ASSUME NEW p \in Procs, JoinStop(p) PROVE RunInv'
  BY <1>18 DEF JoinStop, AfterStop
<1>19. CASE RunStopped
  BY <1>19 DEF RunStopped
<1>20. CASE RunCheck
  BY <1>20 DEF RunCheck, RunReturns
<1>21. CASE RunClose
  BY <1>21 DEF RunClose, RunReturns, CloseDone
<1>22. ASSUME NEW t \in Tickers, NEW e \in BOOLEAN, Finish(t, e) PROVE RunInv'
  BY <1>22 DEF Finish
<1>23. CASE UNCHANGED vars
  BY <1>23 DEF vars
<1> QED
  BY <1>1, <1>2, <1>3, <1>4, <1>5, <1>6, <1>7, <1>8, <1>9, <1>10, <1>11, <1>12,
     <1>13, <1>14, <1>15, <1>16, <1>17, <1>18, <1>19, <1>20, <1>21, <1>22, <1>23
     DEF Next, Add, AddStep, HandleStep, StopStep, RunStep, TickerStep

(* sync.Once lets one goroutine close stop (manager.go:94-97). *)
LEMMA OnceStep ==
  ASSUME TypeOK, OnceInv, [Next]_vars
  PROVE  OnceInv'
<1> USE DEF TypeOK, goroutines, manager, worker, tickers, history, At, Goto, Procs,
           CallerLabels, StopperLabels, AddLabels, HandleLabels, StopLabels, OnceInv, InOnce
<1>1. ASSUME NEW c \in Callers, AddNil(c) PROVE OnceInv'
  BY <1>1 DEF AddNil
<1>2. ASSUME NEW c \in Callers, NEW t \in Tickers, AddCall(c, t) PROVE OnceInv'
  BY <1>2 DEF AddCall, Do
<1>3. ASSUME NEW c \in Callers, CheckStop(c) PROVE OnceInv'
  BY <1>3 DEF CheckStop
<1>4. ASSUME NEW c \in Callers, SendStopped(c) PROVE OnceInv'
  BY <1>4 DEF SendStopped
<1>5. ASSUME NEW c \in Callers, Accept(c) PROVE OnceInv'
  BY <1>5 DEF Accept
<1>6. ASSUME NEW c \in Callers, Reject(c) PROVE OnceInv'
  BY <1>6 DEF Reject, Release
<1>7. ASSUME NEW c \in Callers, ReportStopped(c) PROVE OnceInv'
  BY <1>7 DEF ReportStopped
<1>8. ASSUME NEW c \in Callers, WatchDone(c) PROVE OnceInv'
  BY <1>8 DEF WatchDone, AskToStop
<1>9. ASSUME NEW c \in Callers, WatchStop(c) PROVE OnceInv'
  BY <1>9 DEF WatchStop, AskToStop
<1>10. ASSUME NEW c \in Callers, Await(c) PROVE OnceInv'
  BY <1>10 DEF Await
<1>11. ASSUME NEW c \in Callers, Collect(c) PROVE OnceInv'
  BY <1>11 DEF Collect
<1>12. ASSUME NEW c \in Callers, AppendErr(c) PROVE OnceInv'
  BY <1>12 DEF AppendErr
<1>13. ASSUME NEW c \in Callers, HandleDone(c) PROVE OnceInv'
  BY <1>13 DEF HandleDone, Release
<1>14. ASSUME NEW s \in Stoppers, CallStop(s) PROVE OnceInv'
  BY <1>14 DEF CallStop
<1>15. ASSUME NEW p \in Procs, EnterStop(p) PROVE OnceInv'
  BY <1>15 DEF EnterStop, CloseStop
<1>16. ASSUME NEW p \in Procs, StopStart(p) PROVE OnceInv'
  BY <1>16 DEF StopStart, Do
<1>17. ASSUME NEW p \in Procs, StopDone(p) PROVE OnceInv'
  BY <1>17 DEF StopDone, Release, AfterStop
<1>18. ASSUME NEW p \in Procs, JoinStop(p) PROVE OnceInv'
  BY <1>18 DEF JoinStop, AfterStop
<1>19. CASE RunStopped
  BY <1>19 DEF RunStopped
<1>20. CASE RunCheck
  BY <1>20 DEF RunCheck, RunReturns
<1>21. CASE RunClose
  BY <1>21 DEF RunClose, RunReturns, CloseDone
<1>22. ASSUME NEW t \in Tickers, NEW e \in BOOLEAN, Finish(t, e) PROVE OnceInv'
  BY <1>22 DEF Finish
<1>23. CASE UNCHANGED vars
  BY <1>23 DEF vars
<1> QED
  BY <1>1, <1>2, <1>3, <1>4, <1>5, <1>6, <1>7, <1>8, <1>9, <1>10, <1>11, <1>12,
     <1>13, <1>14, <1>15, <1>16, <1>17, <1>18, <1>19, <1>20, <1>21, <1>22, <1>23
     DEF Next, Add, AddStep, HandleStep, StopStep, RunStep, TickerStep

(* done is closed when nobody holds a release function any more, and a later
   Add finds stop closed (manager.go:105-106). *)
LEMMA DoneStep ==
  ASSUME TypeOK, RefsInv, RunInv, DoneInv, [Next]_vars
  PROVE  DoneInv'
<1> USE DEF TypeOK, goroutines, manager, worker, tickers, history, At, Goto, Procs,
           CallerLabels, StopperLabels, AddLabels, HandleLabels, StopLabels, RefsInv, RunInv, DoneInv, AddHolds, Handling
<1>1. ASSUME NEW c \in Callers, AddNil(c) PROVE DoneInv'
  BY <1>1 DEF AddNil
<1>2. ASSUME NEW c \in Callers, NEW t \in Tickers, AddCall(c, t) PROVE DoneInv'
  BY <1>2 DEF AddCall, Do
<1>3. ASSUME NEW c \in Callers, CheckStop(c) PROVE DoneInv'
  BY <1>3 DEF CheckStop
<1>4. ASSUME NEW c \in Callers, SendStopped(c) PROVE DoneInv'
  BY <1>4 DEF SendStopped
<1>5. ASSUME NEW c \in Callers, Accept(c) PROVE DoneInv'
  BY <1>5 DEF Accept
<1>6. ASSUME NEW c \in Callers, Reject(c) PROVE DoneInv'
  BY <1>6 DEF Reject, Release
<1>7. ASSUME NEW c \in Callers, ReportStopped(c) PROVE DoneInv'
  BY <1>7 DEF ReportStopped
<1>8. ASSUME NEW c \in Callers, WatchDone(c) PROVE DoneInv'
  BY <1>8 DEF WatchDone, AskToStop
<1>9. ASSUME NEW c \in Callers, WatchStop(c) PROVE DoneInv'
  BY <1>9 DEF WatchStop, AskToStop
<1>10. ASSUME NEW c \in Callers, Await(c) PROVE DoneInv'
  BY <1>10 DEF Await
<1>11. ASSUME NEW c \in Callers, Collect(c) PROVE DoneInv'
  BY <1>11 DEF Collect
<1>12. ASSUME NEW c \in Callers, AppendErr(c) PROVE DoneInv'
  BY <1>12 DEF AppendErr
<1>13. ASSUME NEW c \in Callers, HandleDone(c) PROVE DoneInv'
  BY <1>13 DEF HandleDone, Release
<1>14. ASSUME NEW s \in Stoppers, CallStop(s) PROVE DoneInv'
  BY <1>14, DisjointAssumption DEF CallStop
<1>15. ASSUME NEW p \in Procs, EnterStop(p) PROVE DoneInv'
  BY <1>15 DEF EnterStop, CloseStop
<1>16. ASSUME NEW p \in Procs, StopStart(p) PROVE DoneInv'
  BY <1>16 DEF StopStart, Do
<1>17. ASSUME NEW p \in Procs, StopDone(p) PROVE DoneInv'
  BY <1>17 DEF StopDone, Release, AfterStop
<1>18. ASSUME NEW p \in Procs, JoinStop(p) PROVE DoneInv'
  BY <1>18 DEF JoinStop, AfterStop
<1>19. CASE RunStopped
  BY <1>19 DEF RunStopped
<1>20. CASE RunCheck
  BY <1>20 DEF RunCheck, RunReturns
<1>21. CASE RunClose
  BY <1>21 DEF RunClose, RunReturns, CloseDone
<1>22. ASSUME NEW t \in Tickers, NEW e \in BOOLEAN, Finish(t, e) PROVE DoneInv'
  BY <1>22 DEF Finish
<1>23. CASE UNCHANGED vars
  BY <1>23 DEF vars
<1> QED
  BY <1>1, <1>2, <1>3, <1>4, <1>5, <1>6, <1>7, <1>8, <1>9, <1>10, <1>11, <1>12,
     <1>13, <1>14, <1>15, <1>16, <1>17, <1>18, <1>19, <1>20, <1>21, <1>22, <1>23
     DEF Next, Add, AddStep, HandleStep, StopStep, RunStep, TickerStep

(* The outer select of Add turns away who comes after stop (manager.go:105-106). *)
LEMMA LateStep ==
  ASSUME TypeOK, LateInv, [Next]_vars
  PROVE  LateInv'
<1> USE DEF TypeOK, goroutines, manager, worker, tickers, history, At, Goto, Procs,
           CallerLabels, StopperLabels, AddLabels, HandleLabels, StopLabels, LateInv, Handling
<1>1. ASSUME NEW c \in Callers, AddNil(c) PROVE LateInv'
  BY <1>1 DEF AddNil
<1>2. ASSUME NEW c \in Callers, NEW t \in Tickers, AddCall(c, t) PROVE LateInv'
  BY <1>2 DEF AddCall, Do
<1>3. ASSUME NEW c \in Callers, CheckStop(c) PROVE LateInv'
  BY <1>3 DEF CheckStop
<1>4. ASSUME NEW c \in Callers, SendStopped(c) PROVE LateInv'
  BY <1>4 DEF SendStopped
<1>5. ASSUME NEW c \in Callers, Accept(c) PROVE LateInv'
  BY <1>5 DEF Accept
<1>6. ASSUME NEW c \in Callers, Reject(c) PROVE LateInv'
  BY <1>6 DEF Reject, Release
<1>7. ASSUME NEW c \in Callers, ReportStopped(c) PROVE LateInv'
  BY <1>7 DEF ReportStopped
<1>8. ASSUME NEW c \in Callers, WatchDone(c) PROVE LateInv'
  BY <1>8 DEF WatchDone, AskToStop
<1>9. ASSUME NEW c \in Callers, WatchStop(c) PROVE LateInv'
  BY <1>9 DEF WatchStop, AskToStop
<1>10. ASSUME NEW c \in Callers, Await(c) PROVE LateInv'
  BY <1>10 DEF Await
<1>11. ASSUME NEW c \in Callers, Collect(c) PROVE LateInv'
  BY <1>11 DEF Collect
<1>12. ASSUME NEW c \in Callers, AppendErr(c) PROVE LateInv'
  BY <1>12 DEF AppendErr
<1>13. ASSUME NEW c \in Callers, HandleDone(c) PROVE LateInv'
  BY <1>13 DEF HandleDone, Release
<1>14. ASSUME NEW s \in Stoppers, CallStop(s) PROVE LateInv'
  BY <1>14, DisjointAssumption DEF CallStop
<1>15. ASSUME NEW p \in Procs, EnterStop(p) PROVE LateInv'
  BY <1>15 DEF EnterStop, CloseStop
<1>16. ASSUME NEW p \in Procs, StopStart(p) PROVE LateInv'
  BY <1>16 DEF StopStart, Do
<1>17. ASSUME NEW p \in Procs, StopDone(p) PROVE LateInv'
  BY <1>17 DEF StopDone, Release, AfterStop
<1>18. ASSUME NEW p \in Procs, JoinStop(p) PROVE LateInv'
  BY <1>18 DEF JoinStop, AfterStop
<1>19. CASE RunStopped
  BY <1>19 DEF RunStopped
<1>20. CASE RunCheck
  BY <1>20 DEF RunCheck, RunReturns
<1>21. CASE RunClose
  BY <1>21 DEF RunClose, RunReturns, CloseDone
<1>22. ASSUME NEW t \in Tickers, NEW e \in BOOLEAN, Finish(t, e) PROVE LateInv'
  BY <1>22 DEF Finish
<1>23. CASE UNCHANGED vars
  BY <1>23 DEF vars
<1> QED
  BY <1>1, <1>2, <1>3, <1>4, <1>5, <1>6, <1>7, <1>8, <1>9, <1>10, <1>11, <1>12,
     <1>13, <1>14, <1>15, <1>16, <1>17, <1>18, <1>19, <1>20, <1>21, <1>22, <1>23
     DEF Next, Add, AddStep, HandleStep, StopStep, RunStep, TickerStep

(* handle goes on to read Err only when its ticker is done (manager.go:147-155). *)
LEMMA FinishStep ==
  ASSUME TypeOK, FinishInv, [Next]_vars
  PROVE  FinishInv'
<1> USE DEF TypeOK, goroutines, manager, worker, tickers, history, At, Goto, Procs,
           CallerLabels, StopperLabels, AddLabels, HandleLabels, StopLabels, FinishInv, Handling
<1>1. ASSUME NEW c \in Callers, AddNil(c) PROVE FinishInv'
  BY <1>1 DEF AddNil
<1>2. ASSUME NEW c \in Callers, NEW t \in Tickers, AddCall(c, t) PROVE FinishInv'
  BY <1>2 DEF AddCall, Do
<1>3. ASSUME NEW c \in Callers, CheckStop(c) PROVE FinishInv'
  BY <1>3 DEF CheckStop
<1>4. ASSUME NEW c \in Callers, SendStopped(c) PROVE FinishInv'
  BY <1>4 DEF SendStopped
<1>5. ASSUME NEW c \in Callers, Accept(c) PROVE FinishInv'
  BY <1>5 DEF Accept
<1>6. ASSUME NEW c \in Callers, Reject(c) PROVE FinishInv'
  BY <1>6 DEF Reject, Release
<1>7. ASSUME NEW c \in Callers, ReportStopped(c) PROVE FinishInv'
  BY <1>7 DEF ReportStopped
<1>8. ASSUME NEW c \in Callers, WatchDone(c) PROVE FinishInv'
  BY <1>8 DEF WatchDone, AskToStop
<1>9. ASSUME NEW c \in Callers, WatchStop(c) PROVE FinishInv'
  BY <1>9 DEF WatchStop, AskToStop
<1>10. ASSUME NEW c \in Callers, Await(c) PROVE FinishInv'
  BY <1>10 DEF Await
<1>11. ASSUME NEW c \in Callers, Collect(c) PROVE FinishInv'
  BY <1>11 DEF Collect
<1>12. ASSUME NEW c \in Callers, AppendErr(c) PROVE FinishInv'
  BY <1>12 DEF AppendErr
<1>13. ASSUME NEW c \in Callers, HandleDone(c) PROVE FinishInv'
  BY <1>13 DEF HandleDone, Release
<1>14. ASSUME NEW s \in Stoppers, CallStop(s) PROVE FinishInv'
  BY <1>14, DisjointAssumption DEF CallStop
<1>15. ASSUME NEW p \in Procs, EnterStop(p) PROVE FinishInv'
  BY <1>15 DEF EnterStop, CloseStop
<1>16. ASSUME NEW p \in Procs, StopStart(p) PROVE FinishInv'
  BY <1>16 DEF StopStart, Do
<1>17. ASSUME NEW p \in Procs, StopDone(p) PROVE FinishInv'
  BY <1>17 DEF StopDone, Release, AfterStop
<1>18. ASSUME NEW p \in Procs, JoinStop(p) PROVE FinishInv'
  BY <1>18 DEF JoinStop, AfterStop
<1>19. CASE RunStopped
  BY <1>19 DEF RunStopped
<1>20. CASE RunCheck
  BY <1>20 DEF RunCheck, RunReturns
<1>21. CASE RunClose
  BY <1>21 DEF RunClose, RunReturns, CloseDone
<1>22. ASSUME NEW t \in Tickers, NEW e \in BOOLEAN, Finish(t, e) PROVE FinishInv'
  BY <1>22 DEF Finish
<1>23. CASE UNCHANGED vars
  BY <1>23 DEF vars
<1> QED
  BY <1>1, <1>2, <1>3, <1>4, <1>5, <1>6, <1>7, <1>8, <1>9, <1>10, <1>11, <1>12,
     <1>13, <1>14, <1>15, <1>16, <1>17, <1>18, <1>19, <1>20, <1>21, <1>22, <1>23
     DEF Next, Add, AddStep, HandleStep, StopStep, RunStep, TickerStep

(* handle appends its error before it calls Stop (manager.go:156-160). *)
LEMMA CauseStep ==
  ASSUME TypeOK, CauseInv, [Next]_vars
  PROVE  CauseInv'
<1> USE DEF TypeOK, goroutines, manager, worker, tickers, history, At, Goto, Procs,
           CallerLabels, StopperLabels, AddLabels, HandleLabels, StopLabels, CauseInv, UserStopped
<1>1. ASSUME NEW c \in Callers, AddNil(c) PROVE CauseInv'
  BY <1>1 DEF AddNil
<1>2. ASSUME NEW c \in Callers, NEW t \in Tickers, AddCall(c, t) PROVE CauseInv'
  BY <1>2 DEF AddCall, Do
<1>3. ASSUME NEW c \in Callers, CheckStop(c) PROVE CauseInv'
  BY <1>3 DEF CheckStop
<1>4. ASSUME NEW c \in Callers, SendStopped(c) PROVE CauseInv'
  BY <1>4 DEF SendStopped
<1>5. ASSUME NEW c \in Callers, Accept(c) PROVE CauseInv'
  BY <1>5 DEF Accept
<1>6. ASSUME NEW c \in Callers, Reject(c) PROVE CauseInv'
  BY <1>6 DEF Reject, Release
<1>7. ASSUME NEW c \in Callers, ReportStopped(c) PROVE CauseInv'
  BY <1>7 DEF ReportStopped
<1>8. ASSUME NEW c \in Callers, WatchDone(c) PROVE CauseInv'
  BY <1>8 DEF WatchDone, AskToStop
<1>9. ASSUME NEW c \in Callers, WatchStop(c) PROVE CauseInv'
  BY <1>9 DEF WatchStop, AskToStop
<1>10. ASSUME NEW c \in Callers, Await(c) PROVE CauseInv'
  BY <1>10 DEF Await
<1>11. ASSUME NEW c \in Callers, Collect(c) PROVE CauseInv'
  BY <1>11 DEF Collect
<1>12. ASSUME NEW c \in Callers, AppendErr(c) PROVE CauseInv'
  <2>1. errs' # <<>>
    BY <1>12 DEF AppendErr
  <2> QED
    BY <1>12, <2>1, DisjointAssumption DEF AppendErr
<1>13. ASSUME NEW c \in Callers, HandleDone(c) PROVE CauseInv'
  BY <1>13 DEF HandleDone, Release
<1>14. ASSUME NEW s \in Stoppers, CallStop(s) PROVE CauseInv'
  BY <1>14, DisjointAssumption DEF CallStop
<1>15. ASSUME NEW p \in Procs, EnterStop(p) PROVE CauseInv'
  BY <1>15 DEF EnterStop, CloseStop
<1>16. ASSUME NEW p \in Procs, StopStart(p) PROVE CauseInv'
  BY <1>16 DEF StopStart, Do
<1>17. ASSUME NEW p \in Procs, StopDone(p) PROVE CauseInv'
  BY <1>17 DEF StopDone, Release, AfterStop
<1>18. ASSUME NEW p \in Procs, JoinStop(p) PROVE CauseInv'
  BY <1>18 DEF JoinStop, AfterStop
<1>19. CASE RunStopped
  BY <1>19 DEF RunStopped
<1>20. CASE RunCheck
  BY <1>20 DEF RunCheck, RunReturns
<1>21. CASE RunClose
  BY <1>21 DEF RunClose, RunReturns, CloseDone
<1>22. ASSUME NEW t \in Tickers, NEW e \in BOOLEAN, Finish(t, e) PROVE CauseInv'
  BY <1>22 DEF Finish
<1>23. CASE UNCHANGED vars
  BY <1>23 DEF vars
<1> QED
  BY <1>1, <1>2, <1>3, <1>4, <1>5, <1>6, <1>7, <1>8, <1>9, <1>10, <1>11, <1>12,
     <1>13, <1>14, <1>15, <1>16, <1>17, <1>18, <1>19, <1>20, <1>21, <1>22, <1>23
     DEF Next, Add, AddStep, HandleStep, StopStep, RunStep, TickerStep

(* Neither channel is closed twice (manager.go:95, 132-136). *)
LEMMA PanicStep ==
  ASSUME TypeOK, OnceInv, NoPanic, [Next]_vars
  PROVE  NoPanic'
<1> USE DEF TypeOK, goroutines, manager, worker, tickers, history, At, Goto, Procs,
           CallerLabels, StopperLabels, AddLabels, HandleLabels, StopLabels, OnceInv, NoPanic
<1>1. ASSUME NEW c \in Callers, AddNil(c) PROVE NoPanic'
  BY <1>1 DEF AddNil
<1>2. ASSUME NEW c \in Callers, NEW t \in Tickers, AddCall(c, t) PROVE NoPanic'
  BY <1>2 DEF AddCall, Do
<1>3. ASSUME NEW c \in Callers, CheckStop(c) PROVE NoPanic'
  BY <1>3 DEF CheckStop
<1>4. ASSUME NEW c \in Callers, SendStopped(c) PROVE NoPanic'
  BY <1>4 DEF SendStopped
<1>5. ASSUME NEW c \in Callers, Accept(c) PROVE NoPanic'
  BY <1>5 DEF Accept
<1>6. ASSUME NEW c \in Callers, Reject(c) PROVE NoPanic'
  BY <1>6 DEF Reject, Release
<1>7. ASSUME NEW c \in Callers, ReportStopped(c) PROVE NoPanic'
  BY <1>7 DEF ReportStopped
<1>8. ASSUME NEW c \in Callers, WatchDone(c) PROVE NoPanic'
  BY <1>8 DEF WatchDone, AskToStop
<1>9. ASSUME NEW c \in Callers, WatchStop(c) PROVE NoPanic'
  BY <1>9 DEF WatchStop, AskToStop
<1>10. ASSUME NEW c \in Callers, Await(c) PROVE NoPanic'
  BY <1>10 DEF Await
<1>11. ASSUME NEW c \in Callers, Collect(c) PROVE NoPanic'
  BY <1>11 DEF Collect
<1>12. ASSUME NEW c \in Callers, AppendErr(c) PROVE NoPanic'
  BY <1>12 DEF AppendErr
<1>13. ASSUME NEW c \in Callers, HandleDone(c) PROVE NoPanic'
  BY <1>13 DEF HandleDone, Release
<1>14. ASSUME NEW s \in Stoppers, CallStop(s) PROVE NoPanic'
  BY <1>14 DEF CallStop
<1>15. ASSUME NEW p \in Procs, EnterStop(p) PROVE NoPanic'
  BY <1>15 DEF EnterStop, CloseStop
<1>16. ASSUME NEW p \in Procs, StopStart(p) PROVE NoPanic'
  BY <1>16 DEF StopStart, Do
<1>17. ASSUME NEW p \in Procs, StopDone(p) PROVE NoPanic'
  BY <1>17 DEF StopDone, Release, AfterStop
<1>18. ASSUME NEW p \in Procs, JoinStop(p) PROVE NoPanic'
  BY <1>18 DEF JoinStop, AfterStop
<1>19. CASE RunStopped
  BY <1>19 DEF RunStopped
<1>20. CASE RunCheck
  BY <1>20 DEF RunCheck, RunReturns
<1>21. CASE RunClose
  BY <1>21 DEF RunClose, RunReturns, CloseDone
<1>22. ASSUME NEW t \in Tickers, NEW e \in BOOLEAN, Finish(t, e) PROVE NoPanic'
  BY <1>22 DEF Finish
<1>23. CASE UNCHANGED vars
  BY <1>23 DEF vars
<1> QED
  BY <1>1, <1>2, <1>3, <1>4, <1>5, <1>6, <1>7, <1>8, <1>9, <1>10, <1>11, <1>12,
     <1>13, <1>14, <1>15, <1>16, <1>17, <1>18, <1>19, <1>20, <1>21, <1>22, <1>23
     DEF Next, Add, AddStep, HandleStep, StopStep, RunStep, TickerStep

(* The error of a finished ticker is in errs or on its way there
   (manager.go:156-159). *)
LEMMA ReportStep ==
  ASSUME TypeOK, FinishInv, ReportInv, [Next]_vars
  PROVE  ReportInv'
<1> USE DEF TypeOK, goroutines, manager, worker, tickers, history, At, Goto, Procs,
           CallerLabels, StopperLabels, AddLabels, HandleLabels, StopLabels,
           FinishInv, ReportInv, Reported, Handling
<1>1. ASSUME NEW c \in Callers, AddNil(c) PROVE ReportInv'
  BY <1>1 DEF AddNil
<1>2. ASSUME NEW c \in Callers, NEW t \in Tickers, AddCall(c, t) PROVE ReportInv'
  BY <1>2 DEF AddCall, Do
<1>3. ASSUME NEW c \in Callers, CheckStop(c) PROVE ReportInv'
  BY <1>3 DEF CheckStop
<1>4. ASSUME NEW c \in Callers, SendStopped(c) PROVE ReportInv'
  BY <1>4 DEF SendStopped
<1>5. ASSUME NEW c \in Callers, Accept(c) PROVE ReportInv'
  BY <1>5 DEF Accept
<1>6. ASSUME NEW c \in Callers, Reject(c) PROVE ReportInv'
  BY <1>6 DEF Reject, Release
<1>7. ASSUME NEW c \in Callers, ReportStopped(c) PROVE ReportInv'
  BY <1>7 DEF ReportStopped
<1>8. ASSUME NEW c \in Callers, WatchDone(c) PROVE ReportInv'
  BY <1>8 DEF WatchDone, AskToStop
<1>9. ASSUME NEW c \in Callers, WatchStop(c) PROVE ReportInv'
  BY <1>9 DEF WatchStop, AskToStop
<1>10. ASSUME NEW c \in Callers, Await(c) PROVE ReportInv'
  BY <1>10 DEF Await
<1>11. ASSUME NEW c \in Callers, Collect(c) PROVE ReportInv'
  BY <1>11 DEF Collect
<1>12. ASSUME NEW c \in Callers, AppendErr(c) PROVE ReportInv'
  BY <1>12 DEF AppendErr
<1>13. ASSUME NEW c \in Callers, HandleDone(c) PROVE ReportInv'
  <2>1. \A d \in Callers : d # c => pc'[d] = pc[d]
    BY <1>13 DEF HandleDone
  <2>2. pc[c] = "release" /\ pc'[c] = "ready"
    BY <1>13 DEF HandleDone
  <2> QED
    BY <1>13, <2>1, <2>2 DEF HandleDone
<1>14. ASSUME NEW s \in Stoppers, CallStop(s) PROVE ReportInv'
  BY <1>14, DisjointAssumption DEF CallStop
<1>15. ASSUME NEW p \in Procs, EnterStop(p) PROVE ReportInv'
  BY <1>15 DEF EnterStop, CloseStop
<1>16. ASSUME NEW p \in Procs, StopStart(p) PROVE ReportInv'
  BY <1>16 DEF StopStart, Do
<1>17. ASSUME NEW p \in Procs, StopDone(p) PROVE ReportInv'
  BY <1>17 DEF StopDone, Release, AfterStop
<1>18. ASSUME NEW p \in Procs, JoinStop(p) PROVE ReportInv'
  BY <1>18 DEF JoinStop, AfterStop
<1>19. CASE RunStopped
  BY <1>19 DEF RunStopped
<1>20. CASE RunCheck
  BY <1>20 DEF RunCheck, RunReturns
<1>21. CASE RunClose
  BY <1>21 DEF RunClose, RunReturns, CloseDone
<1>22. ASSUME NEW t \in Tickers, NEW e \in BOOLEAN, Finish(t, e) PROVE ReportInv'
  BY <1>22 DEF Finish
<1>23. CASE UNCHANGED vars
  BY <1>23 DEF vars
<1> QED
  BY <1>1, <1>2, <1>3, <1>4, <1>5, <1>6, <1>7, <1>8, <1>9, <1>10, <1>11, <1>12,
     <1>13, <1>14, <1>15, <1>16, <1>17, <1>18, <1>19, <1>20, <1>21, <1>22, <1>23
     DEF Next, Add, AddStep, HandleStep, StopStep, RunStep, TickerStep

-----------------------------------------------------------------------------
(* The initial state satisfies the invariant. *)
LEMMA InitIInv == Init => IInv
<1> SUFFICES ASSUME Init PROVE IInv
  OBVIOUS
<1> USE DEF Init, Procs, At
<1>1. TypeOK
  <2>1. "ready" \in CallerLabels /\ "ready" \in StopperLabels
    BY DEF CallerLabels, StopperLabels
  <2>2. /\ pc \in [Procs -> CallerLabels \cup StopperLabels]
        /\ \A c \in Callers : pc[c] \in CallerLabels
        /\ \A s \in Stoppers : pc[s] \in StopperLabels
    BY <2>1
  <2>3. errs \in Seq(Tickers)
    OBVIOUS
  <2> QED
    BY <2>2, <2>3 DEF TypeOK
<1>2. RefsInv /\ RunInv /\ OnceInv /\ DoneInv /\ LateInv
  BY DEF RefsInv, RunInv, OnceInv, DoneInv, LateInv, AddHolds, Handling, InOnce,
         HandleLabels, StopLabels
<1>3. FinishInv
  BY DEF FinishInv, Handling, HandleLabels, StopLabels
<1>4. ReportInv
  BY DEF ReportInv, Reported
<1>5. CauseInv /\ NoPanic
  BY DEF CauseInv, NoPanic, StopLabels
<1> QED
  BY <1>1, <1>2, <1>3, <1>4, <1>5 DEF IInv

(* Every step keeps it. *)
LEMMA NextIInv == IInv /\ [Next]_vars => IInv'
  BY TypeStep, RefsStep, RunInvStep, OnceStep, DoneStep, LateStep, FinishStep,
     ReportStep, CauseStep, PanicStep DEF IInv

(* The state of the manager keeps its types: in particular no goroutine is
   ever at a line of manager.go that is not its own. *)
THEOREM TypeCorrect == Spec => []TypeOK
<1>1. Init => TypeOK
  BY InitIInv DEF IInv
<1>2. TypeOK /\ [Next]_vars => TypeOK'
  BY TypeStep
<1> QED
  BY <1>1, <1>2, PTL DEF Spec

(* IInv holds in every reachable state of manager.go. *)
THEOREM Invariance == Spec => []IInv
  BY InitIInv, NextIInv, PTL DEF Spec

(* What done promises: no accepted ticker is running, no handle goroutine is
   left, no call of Add can be accepted (manager.go:62-63). *)
THEOREM Quiescence == Spec => []QuiescentWhenDone
<1>1. IInv => QuiescentWhenDone
  BY DEF IInv, QuiescentWhenDone, DoneInv, FinishInv, Handling, HandleLabels
<1> QED
  BY <1>1, Invariance, PTL

(* Whoever waited for Done sees all errors in Err, and only errors of tickers
   that Add had accepted (manager.go:63-64). *)
THEOREM ErrorsComplete == Spec => []ErrorsCompleteWhenDone
<1>1. IInv => ErrorsCompleteWhenDone
  <2> SUFFICES ASSUME IInv, done PROVE Reported = {t \in registered : failed[t]}
    BY DEF ErrorsCompleteWhenDone
  <2>1. \A c \in Callers : pc[c] \notin HandleLabels
    BY DEF IInv, DoneInv, Handling
  <2>2. \A t \in registered : failed[t] => t \in Reported
    BY <2>1 DEF IInv, ReportInv, HandleLabels
  <2>3. Reported \subseteq {t \in registered : failed[t]}
    BY DEF IInv, ReportInv
  <2> QED
    BY <2>2, <2>3
<1> QED
  BY <1>1, Invariance, PTL

(* An Add that begins after stop is closed is never accepted (manager.go:66). *)
THEOREM LateAdds == Spec => []LateAddRefused
<1>1. IInv => LateAddRefused
  BY DEF IInv, LateInv, LateAddRefused
<1> QED
  BY <1>1, Invariance, PTL

(* The plain ErrManagerStopped is only returned when a user called Stop
   (manager.go:118-121). *)
THEOREM RefusalCause == Spec => []RefusalNamesCause
<1>1. IInv => RefusalNamesCause
  BY DEF IInv, CauseInv, UserStopped, RefusalNamesCause
<1> QED
  BY <1>1, Invariance, PTL

(* No channel is closed twice (manager.go:95, 132-136). *)
THEOREM NeverPanics == Spec => []NoPanic
<1>1. IInv => NoPanic
  BY DEF IInv
<1> QED
  BY <1>1, Invariance, PTL

-----------------------------------------------------------------------------
(* Every step of the manager is a step of the abstract Ticker, or leaves it  *)
(* alone.                                                                    *)
LEMMA StepIsTickerStep ==
  ASSUME IInv, [Next]_vars
  PROVE  [Contract!Next]_(Contract!vars)
<1> DEFINE Working == \E t \in registered : ~finished[t]
<1> USE DEF goroutines, manager, worker, tickers, history, At, Goto
<1>1. ASSUME UNCHANGED <<manager, finished, registered>>
      PROVE  UNCHANGED Contract!vars
  BY <1>1 DEF Contract!vars
<1>2. ASSUME NEW c \in Callers, AddNil(c) PROVE UNCHANGED Contract!vars
  BY <1>2, <1>1 DEF AddNil
<1>3. ASSUME NEW c \in Callers, NEW t \in Tickers, AddCall(c, t) PROVE UNCHANGED Contract!vars
  BY <1>3, <1>1 DEF AddCall
<1>4. ASSUME NEW c \in Callers, CheckStop(c) PROVE UNCHANGED Contract!vars
  BY <1>4, <1>1 DEF CheckStop
<1>5. ASSUME NEW c \in Callers, SendStopped(c) PROVE UNCHANGED Contract!vars
  BY <1>5, <1>1 DEF SendStopped
<1>6. ASSUME NEW c \in Callers, Reject(c) PROVE UNCHANGED Contract!vars
  BY <1>6, <1>1 DEF Reject
<1>7. ASSUME NEW c \in Callers, ReportStopped(c) PROVE UNCHANGED Contract!vars
  BY <1>7, <1>1 DEF ReportStopped
<1>8. ASSUME NEW c \in Callers, WatchDone(c) PROVE UNCHANGED Contract!vars
  BY <1>8, <1>1 DEF WatchDone
<1>9. ASSUME NEW c \in Callers, WatchStop(c) PROVE UNCHANGED Contract!vars
  BY <1>9, <1>1 DEF WatchStop
<1>10. ASSUME NEW c \in Callers, Await(c) PROVE UNCHANGED Contract!vars
  BY <1>10, <1>1 DEF Await
<1>11. ASSUME NEW c \in Callers, Collect(c) PROVE UNCHANGED Contract!vars
  BY <1>11, <1>1 DEF Collect
<1>12. ASSUME NEW c \in Callers, HandleDone(c) PROVE UNCHANGED Contract!vars
  BY <1>12, <1>1 DEF HandleDone
<1>13. ASSUME NEW s \in Stoppers, CallStop(s) PROVE UNCHANGED Contract!vars
  BY <1>13, <1>1 DEF CallStop
<1>14. ASSUME NEW p \in Procs, StopStart(p) PROVE UNCHANGED Contract!vars
  BY <1>14 DEF StopStart, Contract!vars
<1>15. ASSUME NEW p \in Procs, StopDone(p) PROVE UNCHANGED Contract!vars
  BY <1>15 DEF StopDone, Contract!vars
<1>16. ASSUME NEW p \in Procs, JoinStop(p) PROVE UNCHANGED Contract!vars
  BY <1>16, <1>1 DEF JoinStop
<1>17. ASSUME RunStopped PROVE UNCHANGED Contract!vars
  BY <1>17, <1>1 DEF RunStopped
<1>18. ASSUME RunCheck PROVE UNCHANGED Contract!vars
  BY <1>18, <1>1 DEF RunCheck
<1>19. ASSUME NEW c \in Callers, Accept(c) PROVE [Contract!Begin]_(Contract!vars)
  <2>1. ~done /\ ~done'
    BY <1>19 DEF Accept, IInv, DoneInv
  <2>2. CASE Working'
    BY <1>19, <2>1, <2>2 DEF Accept, Contract!Begin
  <2>3. CASE ~Working'
    <3>1. ~Working
      BY <1>19, <2>3 DEF Accept
    <3> QED
      BY <1>19, <2>3, <3>1 DEF Accept, Contract!vars
  <2> QED
    BY <2>2, <2>3
<1>20. ASSUME NEW c \in Callers, AppendErr(c) PROVE Contract!Report
  <2>1. ~done
    BY <1>20 DEF AppendErr, IInv, DoneInv, Handling, HandleLabels
  <2>2. errs' \in Seq(Tickers) \ {<<>>}
    BY <1>20 DEF AppendErr, IInv, TypeOK
  <2> QED
    BY <1>20, <2>1, <2>2 DEF AppendErr, Contract!Report
<1>21. ASSUME NEW p \in Procs, EnterStop(p) PROVE Contract!BeginStop
  BY <1>21 DEF EnterStop, CloseStop, Contract!BeginStop
<1>22. ASSUME RunClose PROVE [Contract!Close]_(Contract!vars)
  <2>1. stop /\ runStop /\ refs = {}
    BY <1>22 DEF RunClose, IInv, RunInv, RefsInv
  <2>2. \A c \in Callers : ~Handling(c)
    BY <2>1 DEF IInv, RefsInv, AddHolds
  <2>3. ~Working
    BY <2>2 DEF IInv, FinishInv, Handling, HandleLabels
  <2>4. CASE done
    BY <1>22, <2>4, <1>1 DEF RunClose
  <2>5. CASE ~done
    BY <1>22, <2>1, <2>3, <2>5 DEF RunClose, CloseDone, Contract!Close
  <2> QED
    BY <2>4, <2>5
<1>23. ASSUME NEW t \in Tickers, NEW e \in BOOLEAN, Finish(t, e) PROVE [Contract!End]_(Contract!vars)
  <2>1. CASE Working /\ ~Working'
    BY <1>23, <2>1 DEF Finish, Contract!End
  <2>2. Working' => Working
    BY <1>23 DEF Finish, IInv, TypeOK
  <2>3. CASE Working = Working'
    BY <1>23, <2>3 DEF Finish, Contract!vars
  <2> QED
    BY <2>1, <2>2, <2>3
<1>24. CASE UNCHANGED vars
  BY <1>24, <1>1 DEF vars
<1> QED
  BY <1>2, <1>3, <1>4, <1>5, <1>6, <1>7, <1>8, <1>9, <1>10, <1>11, <1>12, <1>13,
     <1>14, <1>15, <1>16, <1>17, <1>18, <1>19, <1>20, <1>21, <1>22, <1>23, <1>24
     DEF Next, Add, AddStep, HandleStep, StopStep, RunStep, TickerStep, Contract!Next

(* The manager implements the Ticker interface (ticker.go:28-37), so that it
   may be added to another manager. *)
THEOREM Refinement == Spec => ManagerIsTicker
<1>1. Init => Contract!Init
  BY DEF Init, Contract!Init
<1>2. IInv /\ [Next]_vars => [Contract!Next]_(Contract!vars)
  BY StepIsTickerStep
<1> QED
  BY <1>1, <1>2, Invariance, PTL DEF Spec, ManagerIsTicker, Contract!SafeSpec
=============================================================================
