----------------------------- MODULE TickerInv -----------------------------
(* The inductive invariant behind the safety properties of Ticker, for TLC *)
(* to check and for TickerProofs to prove.                                 *)
EXTENDS Ticker

(* The labels of run that follow its own call of Stop. *)
PastStop == {"cancel", "close", "end"}

(* tickerCore.once orders the two effects of Stop: the time.Ticker is stopped
   before the channel is closed, and one goroutine does both. *)
OnceInv ==
  /\ timer <=> once = "new"
  /\ stop <=> once = "complete"
  /\ \A p \in Procs : At(p, "stopClose") => once = "busy"
  /\ \A p, q \in Procs : At(p, "stopClose") /\ At(q, "stopClose") => p = q
  /\ \A s \in Stoppers : At(s, "stopped") => stop

(* Nothing is left in the channel of a time.Ticker that was stopped. *)
TimerInv == ready => timer

(* What run has done by the time it is at a label. *)
RunInv ==
  /\ pc[Runner] \in PastStop => stop
  /\ pc[Runner] \in {"close", "end"} => ctx # "live"
  /\ done <=> At(Runner, "end")

(* What the loop has found out: nothing while it runs, then its reason. *)
Finding ==
  CASE cause = "context" -> ctx
    [] cause = "node" -> TickErr(outcome)
    [] OTHER -> "nil"

CauseInv ==
  /\ pc[Runner] \in {"select", "tick"} <=> cause = "none"
  /\ pc[Runner] \in {"select", "tick"} => TickErr(outcome) = "nil"
  /\ local = Finding
  /\ err = IF pc[Runner] \in {"select", "tick", "store"} THEN "nil" ELSE local
  /\ cause = "context" => ctx # "live"
  /\ cause = "node" => local # "nil"

(* What every step of run and Stop (ticker.go:127-164) preserves, and from
   which the safety properties of Ticker follow. *)
IInv ==
  /\ TypeOK
  /\ OnceInv
  /\ TimerInv
  /\ RunInv
  /\ CauseInv
=============================================================================
