-------------------------------- MODULE Walk --------------------------------
(***************************************************************************)
(* metadata.go: Walk, which visits the tree that nodes claim to be.        *)
(*                                                                         *)
(* walk calls itself from within the loop of Node.Children over a node, so *)
(* as many loops are going on as there are nodes above the one visited.    *)
(* When fn has seen enough, false is handed up through all of them.        *)
(*                                                                         *)
(* Nodes are numbers, a node being less than its children; one may be a    *)
(* child of several, or of one several times.  Expanding a node gives the  *)
(* same children every time.  That a query of a node gets the outermost    *)
(* answer of its own expansion is what module Value shows; here it is one  *)
(* step.                                                                   *)
(***************************************************************************)
EXTENDS Naturals, SequencesExt, FiniteSetsExt

CONSTANT
  Trees      \* the trees there may be: records of
             \*   n, how many nodes there are,
             \*   children, what the expansion of each gives, and
             \*   wraps, what was attached to each, the outermost first

VARIABLES
  tree,      \* the one that is walked
  state,     \* "walking", "stopping" when a call of walk returns false, or how
             \* the walk has ended
  loops,     \* what each loop over children has yet to yield, the innermost first
  visited,   \* what fn was called with
  enough     \* history: how many that were when fn returned false, or 0

walkVars == <<tree, state, loops, visited, enough>>

Nil  == 0   \* the nil node
Root == 1

(* What is attached: a name, whichever, or a structure, nil or a list. *)
Attached(key, value) == [key |-> key, value |-> value]
Cleared == <<>>
Given(list) == <<list>>

(* No node is below itself, or neither Walk nor the printer would end. *)
Lists(t, i) == Seq({Nil} \cup (i + 1..t.n))
Wraps(t, i) == Seq([key : {"name", "structure"}, value : Seq(Lists(t, i))])

IsTree(t) ==
  /\ t.n \in Nat \ {0}
  /\ \A i \in 1..t.n : t.children[i] \in Lists(t, i) /\ t.wraps[i] \in Wraps(t, i)

ASSUME WalkAssumption == \A t \in Trees : IsTree(t)

-----------------------------------------------------------------------------
(* Mutant: the innermost counts. *)
InnermostWins(t, i, key) ==
  LET mine == {k \in DOMAIN t.wraps[i] : t.wraps[i][k].key = key}
  IN  IF mine = {} THEN Cleared ELSE t.wraps[i][Max(mine)].value

(* Node.Value: the first that provides a value for the key. *)
Value(t, i, key) ==
  LET mine == {k \in DOMAIN t.wraps[i] : t.wraps[i][k].key = key}
  IN  IF mine = {} THEN Cleared ELSE t.wraps[i][Min(mine)].value

(* Node.Children *)
Logical(t, i) ==
  LET structure == Value(t, i, "structure")
  IN  IF structure = Cleared THEN t.children[i] ELSE structure[1]

-----------------------------------------------------------------------------
WalkInit ==
  /\ tree \in Trees
  /\ state = "walking"
  /\ loops = <<<<Root>>>>
  /\ visited = <<>>
  /\ enough = 0

(* The innermost loop yields its next node, and walk calls fn with it. *)
Yields ==
  /\ state = "walking" /\ loops # <<>> /\ Head(loops) # <<>>
  /\ visited' = Append(visited, Head(Head(loops)))

AfterYield == <<Tail(Head(loops))>> \o Tail(loops)

AfterVisit == <<Logical(tree, Head(Head(loops)))>> \o AfterYield

(* fn has seen enough: the call of walk returns false. *)
Stop ==
  /\ Yields
  /\ state' = "stopping"
  /\ loops' = AfterYield
  /\ enough' = Len(visited')
  /\ UNCHANGED tree

(* fn goes on: the loop over the children of the node begins.  The nil node
   cannot be expanded. *)
Visit ==
  /\ Yields
  /\ IF Head(Head(loops)) = Nil
       THEN state' = "panicked" /\ UNCHANGED loops
       ELSE loops' = AfterVisit /\ UNCHANGED state
  /\ UNCHANGED <<tree, enough>>

(* Mutant: walk does not remember that its loop was stopped. *)
HandUpLost ==
  /\ state = "stopping" /\ loops # <<>>
  /\ loops' = Tail(loops)
  /\ state' = IF Tail(loops) = <<>> THEN "stopped" ELSE "walking"
  /\ UNCHANGED <<tree, visited, enough>>

(* The loop that yielded the node is left, whatever it has not yielded yet, and
   the call of walk it belongs to returns false, too. *)
HandUp ==
  /\ state = "stopping" /\ loops # <<>>
  /\ loops' = Tail(loops)
  /\ state' = IF Tail(loops) = <<>> THEN "stopped" ELSE "stopping"
  /\ UNCHANGED <<tree, visited, enough>>

(* The innermost loop is over: the call of walk it belongs to returns true. *)
WalkReturns ==
  /\ state = "walking" /\ loops # <<>> /\ Head(loops) = <<>>
  /\ loops' = Tail(loops)
  /\ state' = IF Tail(loops) = <<>> THEN "done" ELSE "walking"
  /\ UNCHANGED <<tree, visited, enough>>

WalkNext == Stop \/ Visit \/ HandUp \/ WalkReturns

WalkSpec == WalkInit /\ [][WalkNext]_walkVars

-----------------------------------------------------------------------------
(* The children that were claimed for node i last, if that was not undone. *)
Claimed(t, i) ==
  LET Claims(k) == t.wraps[i][k].key = "structure"
      IsLast(k) == Claims(k) /\ \A j \in 1..k - 1 : ~Claims(j)
  IN  IF \E k \in DOMAIN t.wraps[i] : IsLast(k) /\ t.wraps[i][k].value # Cleared
        THEN t.wraps[i][CHOOSE k \in DOMAIN t.wraps[i] : IsLast(k)].value[1]
        ELSE t.children[i]

(* The conceptual tree below each node, depth-first. *)
PreOrder(t) ==
  LET below[i \in 0..t.n] ==
        <<i>> \o IF i = Nil THEN <<>>
                 ELSE FlattenSeq([k \in DOMAIN Claimed(t, i) |-> below[Claimed(t, i)[k]]])
  IN  below

(* "traverses the conceptual tree structure starting from n, depth-first"
   (metadata.go:190), and "Returning false stops traversal" (docs/walk.md:18):
   once fn has returned false, at whatever depth, it is not called again, and a
   walk that ends without that has visited everything.  A nil child is visited,
   too, but nothing after it, whether fn stops there or not. *)
WalkVisitsLogicalTree ==
  LET all == PreOrder(tree)[Root]
  IN  /\ IsPrefix(visited, all)
      /\ state = "done" /\ enough = 0 => visited = all
      /\ enough # 0 => Len(visited) = enough
      /\ state \in {"walking", "done"} => ~Contains(visited, Nil)

(* "recursively visits each valid child" (docs/walk.md:23): a nil child, which a
   tick answers with an error and the printer leaves out, is not one.  The code
   does not look for it (metadata.go:203), so this does not hold. *)
OnlyValidVisited == ~Contains(visited, Nil)

(* Why: what is still to come are the trees of the nodes to yield. *)
Ahead(t, list) == FlattenSeq([k \in DOMAIN list |-> PreOrder(t)[list[k]]])

WalkInv ==
  /\ IsTree(tree)
  /\ loops \in Seq(Seq(0..tree.n))
  /\ visited \in Seq(0..tree.n)
  /\ state \in {"walking", "done"} =>
       /\ visited \o Ahead(tree, FlattenSeq(loops)) = PreOrder(tree)[Root]
       /\ enough = 0
  /\ state = "done" => loops = <<>>
  /\ WalkVisitsLogicalTree
=============================================================================
