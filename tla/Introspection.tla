--------------------------- MODULE Introspection ---------------------------
(***************************************************************************)
(* printer.go, beside metadata.go: TreePrinter, which draws the tree that  *)
(* nodes are made of, and Walk, which visits the one they claim to be.     *)
(***************************************************************************)
EXTENDS Walk

VARIABLE
  output   \* the lines printed, none before

allVars == <<walkVars, output>>

(* The nodes whose value has two lines. *)
ASSUME PrinterAssumption == \A t \in Trees : t.multiline \subseteq 1..t.n

(* A line begins with columns of four characters; of is the node it is about,
   Nil if it is the second line of a value. *)
Columns == {"bar", "tee", "corner", "blank"}
Line(columns, of) == [columns |-> columns, of |-> of]

WithoutNil(list) == FlattenSeq([k \in DOMAIN list |-> IF list[k] = Nil THEN <<>> ELSE <<list[k]>>])

(* build leaves out nil nodes. *)
Built(t, i) == WithoutNil(t.children[i])

(* Mutant: the bar goes on below the last child. *)
BarBelowLast(prefix, isLast) == Append(prefix, "bar")

(* newPrefix *)
Below(prefix, isLast) == Append(prefix, IF isLast THEN "blank" ELSE "bar")

(* What each node and the nodes below it are drawn as: the line of the node
   begins with lead, what is below it with prefix. *)
Margins == [lead : Seq(Columns), prefix : Seq(Columns)]
Margin(lead, prefix) == [lead |-> lead, prefix |-> prefix]

Draw(t) ==
  LET draw[i \in 1..t.n] ==
        [at \in Margins |->
          LET kids == Built(t, i)
              Child(k) ==
                LET isLast == k = Len(kids)
                IN  Margin(Append(at.prefix, IF isLast THEN "corner" ELSE "tee"), Below(at.prefix, isLast))
          IN  <<Line(at.lead, i)>>
              \o (IF i \in t.multiline THEN <<Line(Append(at.prefix, "blank"), Nil)>> ELSE <<>>)
              \o FlattenSeq([k \in DOMAIN kids |-> draw[kids[k]][Child(k)]])]
  IN  draw

Fprint ==
  /\ output = <<>>
  /\ output' = Draw(tree)[Root][Margin(<<>>, <<>>)]
  /\ UNCHANGED walkVars

InspectInit == WalkInit /\ output = <<>>

InspectNext == (WalkNext /\ UNCHANGED output) \/ Fprint

InspectSpec == InspectInit /\ [][InspectNext]_allVars

-----------------------------------------------------------------------------
Shown(lines) == WithoutNil([l \in DOMAIN lines |-> lines[l].of])

NodeLines(lines) ==
  FlattenSeq([l \in DOMAIN lines |-> IF lines[l].of = Nil THEN <<>> ELSE <<lines[l]>>])

(* Line j is the last above line k to begin one column further left: what a
   reader takes for the line of the parent. *)
IsParent(lines, j, k) ==
  /\ j < k /\ Len(lines[k].columns) = Len(lines[j].columns) + 1
  /\ \A h \in j + 1..k - 1 : Len(lines[h].columns) # Len(lines[j].columns)

ChildrenRead(lines, j) ==
  FlattenSeq([k \in DOMAIN lines |-> IF IsParent(lines, j, k) THEN <<lines[k].of>> ELSE <<>>])

ReadBack(t, lines) ==
  \A j \in DOMAIN lines :
    /\ ChildrenRead(lines, j) = Built(t, lines[j].of)
    /\ IF j = 1 THEN lines[j].of = Root ELSE \E h \in DOMAIN lines : IsParent(lines, h, j)

(* What the columns of a line are, and those of the line below it. *)
Meets(columns, below) ==
  \A c \in DOMAIN columns :
    /\ columns[c] \in {"bar", "tee"} => c \in DOMAIN below /\ below[c] \in {"bar", "tee", "corner"}
    /\ columns[c] = "corner" /\ c \in DOMAIN below => below[c] = "blank"

ConnectorsMeet(lines) ==
  \A l \in DOMAIN lines :
    Meets(lines[l].columns, IF l < Len(lines) THEN lines[l + 1].columns ELSE <<>>)

(* The drawing tells the tree, also if a node occurs more than once, if nil
   nodes are left out and with the second lines of values in between: parents
   read off the indentation give back every node's children in order, a bar or
   a tee goes on in the line below, and a corner does not. *)
DrawingTellsTree == ReadBack(tree, NodeLines(output)) /\ ConnectorsMeet(output)

(* "Passing a nil sequence will cause Node.Structure to return nil, clearing
   any previous structure and reverting to physical node expansion"
   (metadata.go:155): with no structure attached, or none left, Walk visits
   what the printer draws, nil nodes apart. *)
WalkVisitsWhatIsDrawn ==
  (/\ state = "done" /\ output # <<>>
   /\ \A i \in 1..tree.n : tree.wraps[i] # <<>> =>
        \E k \in 1..Len(tree.wraps[i]) :
          /\ tree.wraps[i][k] = Attached("structure", Cleared)
          /\ \A l \in 1..k - 1 : tree.wraps[i][l].key # "structure")
  => visited = Shown(output)

(* Why: the lines are those of the tree that is walked. *)
OutputInv == output \in {<<>>, Draw(tree)[Root][Margin(<<>>, <<>>)]}

InspectInv == WalkInv /\ OutputInv
=============================================================================
