-------------------------- MODULE MCIntrospection --------------------------
(* Trees of Introspection: small ones with values attached, larger plain ones. *)
EXTENDS Introspection

CONSTANTS
  MaxAttached, \* bound on the nodes of a tree with values attached
  MaxPlain     \* bound on the nodes of a tree without

Sorted(S) == SetToSortSeq(S, <)

(* Lists of children that a node i of m nodes may have. *)
ListsOf(i, m) == {Sorted(S) : S \in SUBSET (i + 1..m)}
ListsWithNil(i, m) == ListsOf(i, m) \cup {Append(s, Nil) : s \in ListsOf(i, m)}

(* The same in another order, and with a child that occurs twice. *)
Reordered(i, m) ==
  ListsOf(i, m) \cup {Reverse(s) : s \in ListsOf(i, m)} \cup {<<k, k>> : k \in i + 1..m}

(* One of the choices for each node. *)
PerNode(m, Choice(_)) ==
  LET choices == [i \in 1..m |-> Choice(i)]
  IN  {f \in [1..m -> UNION Range(choices)] : \A i \in 1..m : f[i] \in choices[i]}

Structures(i, m) == {Attached("structure", v) : v \in {Given(s) : s \in Reordered(i, m)} \cup {Cleared}}

(* What may be attached to each node, and to the root after that. *)
First(i, m) == {<<>>} \cup {<<w>> : w \in Structures(i, m)}
Second(m) == {<<>>} \cup {<<w>> : w \in {Attached("name", Cleared)} \cup Structures(Root, m)}

(* A nil child is one of the root here, which may have anything attached. *)
AttachedTrees(m) ==
  {[n |-> m, children |-> children, wraps |-> [first EXCEPT ![Root] = second \o @], multiline |-> {}] :
     children \in PerNode(m, LAMBDA i :
       IF i = Root THEN ListsWithNil(i, m) \cup Reordered(i, m) ELSE ListsOf(i, m)),
     first \in PerNode(m, LAMBDA i : First(i, m)),
     second \in Second(m)}

(* Plain trees all of whose nodes are drawn. *)
PlainTrees(m) ==
  LET shapes == {f \in PerNode(m, LAMBDA i : ListsWithNil(i, m)) :
                   \A k \in 2..m : \E i \in 1..k - 1 : Contains(f[i], k)}
  IN  {[n |-> m, children |-> children, wraps |-> [i \in 1..m |-> <<>>], multiline |-> S] :
         children \in shapes, S \in SUBSET (1..m)}

SmallTrees == AttachedTrees(MaxAttached) \cup UNION {PlainTrees(m) : m \in 1..MaxPlain}
=============================================================================
