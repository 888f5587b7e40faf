----------------------------- MODULE ManagerInv -----------------------------
(* The inductive invariant behind the safety properties of Manager, for TLC *)
(* to check and for ManagerProofs to prove.                                 *)
EXTENDS Manager

(* The labels between a call of Do in Add and the call of its release. *)
AddHolds(c) == pc[c] \in {"check", "send", "reject"} \/ Handling(c)

InOnce(p) == pc[p] \in {"stopStart", "stopDone"}

UserStopped == \E s \in Stoppers : pc[s] # "ready"

(* The worker counts every goroutine that may still send to it or whose
   ticker it answers for, so that it is told to stop only when there is none. *)
RefsInv ==
  /\ \A c \in Callers : AddHolds(c) => <<"add", c>> \in refs
  /\ \A p \in Procs : At(p, "stopDone") => <<"stop", p>> \in refs
  /\ runStop => refs = {}

RunInv ==
  /\ run \in {"stopped", "closing"} => runStop
  /\ run = "closing" => stop

(* At most one goroutine is inside manager.once, and it closed stop. *)
OnceInv ==
  /\ stop <=> once # "new"
  /\ \A p \in Procs : InOnce(p) => once = "busy"
  /\ \A p, q \in Procs : InOnce(p) /\ InOnce(q) => p = q

DoneInv ==
  done => /\ stop
          /\ \A c \in Callers : ~Handling(c) /\ ~At(c, "send")

LateInv == \A c \in late : stop /\ ~Handling(c) /\ ~At(c, "send")

(* A registered ticker is finished, or a handle goroutine waits for it. *)
FinishInv ==
  /\ \A c \in Callers : Handling(c) => arg[c] \in registered
  /\ \A t \in registered : finished[t] \/ \E c \in Callers : arg[c] = t /\ pc[c] \in {"watch", "await"}
  /\ \A t \in Tickers : failed[t] => finished[t]
  /\ \A c \in Callers : pc[c] \in {"collect", "append"} => finished[arg[c]]

(* Its error is in errs, or a handle goroutine is about to put it there. *)
ReportInv ==
  /\ \A c \in Callers : At(c, "append") => failed[arg[c]]
  /\ Reported \subseteq {t \in registered : failed[t]}
  /\ \A t \in registered : failed[t] =>
       \/ t \in Reported
       \/ \E c \in Callers : arg[c] = t /\ pc[c] \in {"watch", "await", "collect", "append"}

(* Why the manager is stopping. *)
CauseInv ==
  /\ \A c \in Callers : pc[c] \in StopLabels => errs # <<>>
  /\ stop => errs # <<>> \/ UserStopped
  /\ \A c \in Callers : pc[c] \in {"reject", "report"} => stop
  /\ \A c \in Callers : result[c] = "stopped" => UserStopped

(* The inductive invariant: what every step of Add, handle, Stop and run
   (manager.go:93-163) preserves, and from which the safety properties of
   Manager follow. *)
IInv ==
  /\ TypeOK
  /\ RefsInv
  /\ RunInv
  /\ OnceInv
  /\ DoneInv
  /\ LateInv
  /\ FinishInv
  /\ ReportInv
  /\ CauseInv
  /\ NoPanic
=============================================================================
