----------------------------- MODULE Background -----------------------------
(***************************************************************************)
(* background.go: a tick that keeps a list of the nodes it has made which  *)
(* are running, ticks them from the oldest, and makes another one if all   *)
(* of them go on running.  One iteration of its loop is a step; what a     *)
(* node answers is up to it.                                               *)
(***************************************************************************)
EXTENDS Naturals, SequencesExt

CONSTANTS
  Names   \* names of nodes, used again; the list holds all but one at most

ASSUME BackgroundAssumption == IsFiniteSet(Names) /\ Names # {}

VARIABLES
  nodes,    \* the variable nodes
  pos,      \* the iteration of the loop, 0 between ticks
  result,   \* what the last tick returned
  alive,    \* history: the nodes that have answered, and only running
  older,    \* history: pairs of them, the first one made before the second
  ticked,   \* history: the nodes this tick has ticked
  missed    \* history: how many ticks in a row have not come to each node

backgroundVars == <<nodes, pos, result, alive, older, ticked, missed>>

(* "error" is any answer with an error, whatever its status. *)
Answers == {"running", "success", "failure", "invalid", "error"}

BackgroundTypeOK ==
  /\ nodes \in Seq(Names)
  /\ pos \in 0..Len(nodes) + 1
  /\ result \in Answers \cup {"none"}
  /\ alive \subseteq Names
  /\ older \subseteq Names \X Names
  /\ ticked \subseteq Names
  /\ missed \in [Names -> Nat]

BackgroundInit ==
  /\ nodes = <<>>
  /\ pos = 0
  /\ result = "none"
  /\ alive = {}
  /\ older = {}
  /\ ticked = {}
  /\ missed = [b \in Names |-> 0]

Begin ==
  /\ pos = 0
  /\ pos' = 1
  /\ ticked' = {}
  /\ UNCHANGED <<nodes, result, alive, older, missed>>

(* The tick returns. *)
Return(answer) ==
  /\ pos' = 0
  /\ result' = answer
  /\ missed' = [b \in Names |-> IF b \in alive' \ ticked' THEN missed[b] + 1 ELSE 0]

(* The node of this iteration is still running. *)
TickRunning ==
  /\ pos \in DOMAIN nodes
  /\ pos' = pos + 1
  /\ ticked' = ticked \cup {nodes[pos]}
  /\ UNCHANGED <<nodes, result, alive, older, missed>>

(* Mutants: it stays; the newer nodes are cut off with it; the last node takes
   its place. *)
Kept(i) == nodes
CutFrom(i) == SubSeq(nodes, 1, i - 1)
SwapOut(i) == [j \in 1..Len(nodes) - 1 |-> IF j = i THEN Last(nodes) ELSE nodes[j]]

(* The copy within nodes, and the cut. *)
Without(i) == RemoveAt(nodes, i)

(* It is not: it is removed, and its answer returned. *)
TickEnds(answer) ==
  /\ pos \in DOMAIN nodes
  /\ answer # "running"
  /\ nodes' = Without(pos)
  /\ ticked' = ticked \cup {nodes[pos]}
  /\ alive' = alive \ {nodes[pos]}
  /\ older' = older \cap (alive' \X alive')
  /\ Return(answer)

(* All nodes are running: another one is made, and ticked. *)
TickNew(b, answer) ==
  /\ pos = Len(nodes) + 1
  /\ b \in Names \ alive
  /\ answer = "running" => alive # Names \ {b}
  /\ ticked' = ticked \cup {b}
  /\ IF answer = "running"
       THEN /\ nodes' = Append(nodes, b)
            /\ alive' = alive \cup {b}
            /\ older' = older \cup (alive \X {b})
       ELSE UNCHANGED <<nodes, alive, older>>
  /\ Return(answer)

Tick ==
  \/ TickRunning
  \/ \E answer \in Answers : TickEnds(answer) \/ \E b \in Names : TickNew(b, answer)

-----------------------------------------------------------------------------
(* The list holds every node that is running, and no other, once, although it
   is cut while it is ranged over: a node that was made is neither forgotten
   nor ticked again after its end, and its answer is returned once
   (background.go:33-42). *)
ListIsAlive ==
  /\ IsInjective(nodes)
  /\ ToSet(nodes) = alive

(* "from oldest to newest" (background.go:21): no node is ticked before an older
   one, whatever was removed in earlier ticks. *)
OldestFirst == \A pair \in older : pair[2] \in ticked => pair[1] \in ticked

(* A tick ends with the first node that is not running, and leaves the newer
   ones out.  Each is left out in a row at most as often as there were nodes
   before it, so that none is left out for ever. *)
Before(b) == {a \in alive : <<a, b>> \in older}

NoStarvation ==
  \A b \in alive : missed[b] + Cardinality(Before(b)) < Cardinality(Names) - 1

(* Why: the list is in the order of age, within a tick those before pos have
   been ticked, and there is always a name to spare. *)
AgeInv ==
  /\ older \subseteq alive \X alive
  /\ \A i, j \in DOMAIN nodes : <<nodes[i], nodes[j]>> \in older <=> i < j
  /\ pos # 0 => ticked = {nodes[i] : i \in 1..pos - 1}
  /\ alive # Names

BackgroundInv == BackgroundTypeOK /\ ListIsAlive /\ OldestFirst /\ AgeInv /\ NoStarvation
=============================================================================
