-------------------------------- MODULE Sync --------------------------------
(***************************************************************************)
(* sync.go: nodes wrapped by Sync, ticked by several goroutines at once,   *)
(* as they are below Fork or in several trees.  The mutex of syc is held   *)
(* while the wrapped Node is called and, separately, while its Tick is;    *)
(* between the two the wrapper only has what it read the first time.       *)
(* One goroutine that ticks them in turn is part of module Execution.      *)
(***************************************************************************)
EXTENDS Naturals, FiniteSets

CONSTANTS
  Workers,   \* the goroutines
  Nodes,     \* the wrapped nodes
  NoWorker   \* the mutex is free

ASSUME SyncAssumption ==
  /\ IsFiniteSet(Workers)
  /\ IsFiniteSet(Nodes)
  /\ NoWorker \notin Workers

VARIABLES
  pc,        \* where each goroutine is
  node,      \* the node it is ticking
  seen,      \* the variable status of the wrapper: what it read of statuses
  statuses,  \* syc.statuses
  mutex      \* who holds syc.mutex

vars == <<pc, node, seen, statuses, mutex>>

(* "none" is the zero Status, and any other that is not one of the three. *)
Statuses == {"none", "running", "success", "failure"}

TypeOK ==
  /\ pc \in [Workers -> {"idle", "expand", "disabled", "tick", "ticking"}]
  /\ node \in [Workers -> Nodes]
  /\ seen \in [Workers -> Statuses]
  /\ statuses \in [Nodes -> Statuses]
  /\ mutex \in Workers \cup {NoWorker}

Init ==
  /\ pc = [w \in Workers |-> "idle"]
  /\ node \in [Workers -> Nodes]
  /\ seen = [w \in Workers |-> "none"]
  /\ statuses = [c \in Nodes |-> "none"]
  /\ mutex = NoWorker

Goto(w, label) == pc' = [pc EXCEPT ![w] = label]

Running == {c \in Nodes : statuses[c] = "running"}

(* Node.Tick of a wrapped node. *)
Call(w, c) ==
  /\ pc[w] = "idle"
  /\ node' = [node EXCEPT ![w] = c]
  /\ Goto(w, "expand")
  /\ UNCHANGED <<seen, statuses, mutex>>

(* Mutant: the other nodes are not looked at. *)
ExpandAlone(w) ==
  /\ pc[w] = "expand"
  /\ mutex = NoWorker
  /\ seen' = [seen EXCEPT ![w] = statuses[node[w]]]
  /\ Goto(w, "tick")
  /\ UNCHANGED <<node, statuses, mutex>>

(* The Node is called with the mutex held, and the mutex released again. *)
Expand(w) ==
  /\ pc[w] = "expand"
  /\ mutex = NoWorker
  /\ seen' = [seen EXCEPT ![w] = statuses[node[w]]]
  /\ Goto(w, IF seen'[w] # "running" /\ Running # {} THEN "disabled" ELSE "tick")
  /\ UNCHANGED <<node, statuses, mutex>>

(* The Node has a nil tick: Node.Tick returns an error. *)
ExpandNil(w) ==
  /\ pc[w] = "expand"
  /\ mutex = NoWorker
  /\ Goto(w, "idle")
  /\ UNCHANGED <<node, seen, statuses, mutex>>

(* The disabled tick returns what was seen. *)
Disabled(w) ==
  /\ pc[w] = "disabled"
  /\ Goto(w, "idle")
  /\ UNCHANGED <<node, seen, statuses, mutex>>

(* The tick is not called after all: the node was only expanded, as Walk and
   the printer do. *)
Drop(w) ==
  /\ pc[w] \in {"disabled", "tick"}
  /\ Goto(w, "idle")
  /\ UNCHANGED <<node, seen, statuses, mutex>>

Enter(w) ==
  /\ pc[w] = "tick"
  /\ mutex = NoWorker
  /\ mutex' = w
  /\ Goto(w, "ticking")
  /\ UNCHANGED <<node, seen, statuses>>

(* Mutant: the mutex is not released. *)
LeaveLocked(w, status) ==
  /\ pc[w] = "ticking"
  /\ statuses' = [statuses EXCEPT ![node[w]] = status]
  /\ Goto(w, "idle")
  /\ UNCHANGED <<node, seen, mutex>>

(* The tick has returned; its status counts, with an error or without. *)
Leave(w, status) ==
  /\ pc[w] = "ticking"
  /\ statuses' = [statuses EXCEPT ![node[w]] = status]
  /\ mutex' = NoWorker
  /\ Goto(w, "idle")
  /\ UNCHANGED <<node, seen>>

Step(w) ==
  \/ Expand(w) \/ ExpandNil(w) \/ Disabled(w) \/ Enter(w)
  \/ \E status \in Statuses : Leave(w, status)

Next == \E w \in Workers : (\E c \in Nodes : Call(w, c)) \/ Step(w) \/ Drop(w)

Spec == Init /\ [][Next]_vars

(* sync.Mutex hands the lock over to a goroutine that has waited for long,  *)
(* and ticks return.                                                        *)
Fairness == \A w \in Workers : SF_vars(Step(w))

FairSpec == Spec /\ Fairness

-----------------------------------------------------------------------------
(* "... or no other nodes are running" (sync.go:21-22) still means something
   when goroutines tick the nodes concurrently: they cannot set more nodes
   running than there are goroutines, however long they go on.  For one
   goroutine this is the comment itself. *)
RunningBounded == Cardinality(Running) <= Cardinality(Workers)

(* The nodes that are running, or may be after ticks that are allowed already. *)
Candidates == Running \cup {node[w] : w \in {v \in Workers : pc[v] \in {"tick", "ticking"}}}

(* Why RunningBounded holds: a node becomes a candidate only while none is
   running, and then there is at most one for each goroutine. *)
BoundInv ==
  /\ TypeOK
  /\ Cardinality(Candidates) <= Cardinality(Workers)

(* "real ticks will only be triggered when either the node being ticked was
   previously running, or no other nodes are running" (sync.go:21-22). *)
RealTickAllowed ==
  [][\A w \in Workers :
       (pc[w] = "tick" /\ pc'[w] = "ticking") => Running \ {node[w]} = {} \/ node[w] \in Running]_vars

(* Every tick returns: the mutex is always given back. *)
TicksReturn == \A w \in Workers : pc[w] # "idle" ~> pc[w] = "idle"
=============================================================================
