--------------------------- MODULE TickerContract ---------------------------
(***************************************************************************)
(* What every implementation of the Ticker interface promises              *)
(* (ticker.go:28-37): Done closes when the ticker is fully stopped, Err    *)
(* returns any error that occurred, Stop asks it to shut down.  NewTicker  *)
(* (ticker.go:67-69) and NewManager (manager.go:61-70) make it precise:    *)
(* when Done is closed no work is in progress, none starts any more, and   *)
(* the error is final.                                                     *)
(*                                                                         *)
(* tickerCore and manager are both shown to implement this module, and     *)
(* the manager in turn relies on nothing else of the tickers given to it.  *)
(***************************************************************************)
CONSTANTS
  Errors,    \* what Err may return
  NoError    \* the nil error

VARIABLES
  working,   \* is work in progress: a tick of the node, a managed ticker
  stopping,  \* the stop channel is closed
  err,       \* what Err returns
  done       \* the Done channel is closed

vars == <<working, stopping, err, done>>

TypeOK ==
  /\ working \in BOOLEAN
  /\ stopping \in BOOLEAN
  /\ err \in Errors \cup {NoError}
  /\ done \in BOOLEAN

Init ==
  /\ working = FALSE
  /\ stopping = FALSE
  /\ err = NoError
  /\ done = FALSE

Begin ==
  /\ ~done
  /\ working' = TRUE
  /\ UNCHANGED <<stopping, err, done>>

End ==
  /\ working
  /\ working' = FALSE
  /\ UNCHANGED <<stopping, err, done>>

(* An error becomes visible; it is never taken back. *)
Report ==
  /\ ~done
  /\ err' \in Errors \ {NoError}
  /\ UNCHANGED <<working, stopping, done>>

(* Stop was called, or the ticker stops of its own accord. *)
BeginStop ==
  /\ stopping' = TRUE
  /\ UNCHANGED <<working, err, done>>

Close ==
  /\ stopping
  /\ ~working
  /\ done' = TRUE
  /\ UNCHANGED <<working, stopping, err>>

Next == Begin \/ End \/ Report \/ BeginStop \/ Close

(* The safety part of the promise. *)
SafeSpec == Init /\ [][Next]_vars

(* Stopping a ticker ends it. *)
StopLeadsToDone == stopping ~> done
=============================================================================
