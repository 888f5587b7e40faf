------------------------- MODULE IntrospectionProofs -------------------------
(***************************************************************************)
(* Proofs about Introspection: what TreePrinter draws tells the tree, and  *)
(* shows what Walk visits where nothing is claimed, for any tree.          *)
(***************************************************************************)
EXTENDS Introspection, MetadataProofs

-----------------------------------------------------------------------------
(* What is drawn *)

(* Leaving out nil nodes, member by member. *)
Node(A) == [x \in A |-> IF x = Nil THEN <<>> ELSE <<x>>]

(* WithoutNil is that. *)
LEMMA WithoutNilIsEach ==
  ASSUME NEW A, NEW list \in Seq(A)
  PROVE  /\ WithoutNil(list) = Each(list, Node(A))
         /\ Node(A) \in [A -> Seq(A \ {Nil})]
         /\ WithoutNil(list) \in Seq(A \ {Nil})
<1>1. Len(list) \in Nat /\ DOMAIN list = 1..Len(list) /\ \A k \in 1..Len(list) : list[k] \in A
  BY LenProperties, ElementOfSeq
<1>2. \A k \in DOMAIN list : Node(A)[list[k]] = IF list[k] = Nil THEN <<>> ELSE <<list[k]>>
  BY <1>1 DEF Node
<1>3. WithoutNil(list) = Each(list, Node(A))
  BY <1>2 DEF WithoutNil, Each
<1>4. ASSUME NEW x \in A PROVE (IF x = Nil THEN <<>> ELSE <<x>>) \in Seq(A \ {Nil})
  <2>1. CASE x = Nil
    BY <2>1
  <2>2. CASE x # Nil
    <3>1. x \in A \ {Nil}
      BY <2>2
    <3>2. <<x>> \in Seq(A \ {Nil})
      BY <3>1
    <3> QED
      BY <2>2, <3>2
  <2> QED
    BY <2>1, <2>2
<1>5. Node(A) \in [A -> Seq(A \ {Nil})]
  BY <1>4 DEF Node
<1>6. \A B : Node(A) \in [A -> Seq(B)] => Each(list, Node(A)) \in Seq(B)
  BY EachParts
<1> QED
  BY <1>3, <1>5, <1>6

(* The children that are drawn are nodes greater than their parent. *)
LEMMA BuiltType ==
  ASSUME NEW t, IsTree(t), NEW i \in 1..t.n
  PROVE  /\ t.children[i] \in Seq({Nil} \cup (i + 1..t.n))
         /\ Built(t, i) \in Seq(i + 1..t.n) /\ Len(Built(t, i)) \in Nat
         /\ DOMAIN Built(t, i) = 1..Len(Built(t, i))
         /\ \A k \in DOMAIN Built(t, i) : Built(t, i)[k] \in i + 1..t.n
<1> DEFINE A == {Nil} \cup (i + 1..t.n)
           kids == Built(t, i)
<1>1. t.children[i] \in Seq(A)
  BY DEF IsTree, Lists
<1>2. A \ {Nil} \subseteq i + 1..t.n
  OBVIOUS
<1> HIDE DEF A
<1>3. kids \in Seq(A \ {Nil})
  BY <1>1, WithoutNilIsEach DEF Built
<1> HIDE DEF kids
<1>4. kids \in Seq(i + 1..t.n)
  BY <1>2, <1>3, SeqMonotonic
<1>5. Len(kids) \in Nat /\ DOMAIN kids = 1..Len(kids) /\ \A k \in 1..Len(kids) : kids[k] \in i + 1..t.n
  BY <1>4, LenProperties, ElementOfSeq
<1> QED
  BY <1>1, <1>4, <1>5 DEF kids, A

(* What a child is drawn at, and the lines about the node itself. *)
ChildMargin(at, kids, k) ==
  Margin(Append(at.prefix, IF k = Len(kids) THEN "corner" ELSE "tee"), Below(at.prefix, k = Len(kids)))

OwnLines(t, i, at) ==
  <<Line(at.lead, i)>> \o (IF i \in t.multiline THEN <<Line(Append(at.prefix, "blank"), Nil)>> ELSE <<>>)

BlocksBelow(t, f, i, at) ==
  [k \in DOMAIN Built(t, i) |-> f[Built(t, i)[k]][ChildMargin(at, Built(t, i), k)]]

(* What is in the definition of Draw. *)
Draws(t, f) ==
  f = [i \in 1..t.n |-> [at \in Margins |-> OwnLines(t, i, at) \o FlattenSeq(BlocksBelow(t, f, i, at))]]

(* Draw is the function in its definition. *)
LEMMA DrawIs == ASSUME NEW t PROVE Draw(t) = CHOOSE f : Draws(t, f)
  BY DEF Draw, Draws, OwnLines, BlocksBelow, ChildMargin

(* That function exists, since the children of a node are greater than it. *)
LEMMA DrawDef == ASSUME NEW t, IsTree(t) PROVE Draws(t, Draw(t))
<1> DEFINE n == t.n
           Body(g, i) == [at \in Margins |-> OwnLines(t, i, at) \o FlattenSeq(BlocksBelow(t, g, i, at))]
           Upto(h, m) == h = [i \in n - m + 1..n |-> Body(h, i)]
<1>1. n \in Nat
  BY DEF IsTree
<1>2. ASSUME NEW i \in 1..n, NEW k \in DOMAIN Built(t, i) PROVE Built(t, i)[k] \in i + 1..n
  BY BuiltType
<1> HIDE DEF n
<1>3. ASSUME NEW m \in 1..n, NEW g, Upto(g, m - 1) PROVE \E h : Upto(h, m)
  <2> DEFINE D == n - (m - 1) + 1..n
             E == n - m + 1..n
             h == [i \in E |-> IF i \in D THEN g[i] ELSE Body(g, i)]
  <2>1. \A i \in D : i \in E /\ h[i] = g[i] /\ g[i] = Body(g, i)
    <3>1. D \subseteq E
      BY <1>1
    <3> HIDE DEF E, Body
    <3> QED
      BY <1>3, <3>1
  <2>2. ASSUME NEW i \in E PROVE Body(h, i) = Body(g, i)
    <3>1. ASSUME NEW k \in DOMAIN Built(t, i) PROVE h[Built(t, i)[k]] = g[Built(t, i)[k]]
      <4>1. i \in 1..n /\ i > n - m
        BY <1>1
      <4>2. Built(t, i)[k] \in D
        BY <1>1, <1>2, <3>1, <4>1
      <4> HIDE DEF D, h
      <4> QED
        BY <2>1, <4>2
    <3> HIDE DEF h
    <3>2. ASSUME NEW at PROVE BlocksBelow(t, h, i, at) = BlocksBelow(t, g, i, at)
      BY <3>1 DEF BlocksBelow
    <3> QED
      BY <3>2
  <2>3. ASSUME NEW i \in E PROVE h[i] = Body(h, i)
    <3>1. CASE i \in D
      <4> HIDE DEF E, D, h, Body
      <4> QED
        BY <2>1, <2>2, <3>1
    <3>2. CASE i \notin D
      <4>1. h[i] = Body(g, i)
        <5> HIDE DEF E, D, Body
        <5> QED
          BY <3>2
      <4> HIDE DEF E, D, h, Body
      <4> QED
        BY <2>2, <4>1
    <3> QED
      BY <3>1, <3>2
  <2>4. h = [i \in E |-> h[i]]
    <3> HIDE DEF E, D, Body
    <3> QED
      OBVIOUS
  <2> HIDE DEF h, D, Body
  <2>5. h = [i \in E |-> Body(h, i)]
    BY <2>3, <2>4, Zenon
  <2> QED
    BY <2>5
<1>4. \E h : Upto(h, 0)
  <2> DEFINE h == [i \in {} |-> i]
  <2>1. n - 0 + 1..n = {}
    BY <1>1
  <2>2. h = [i \in {} |-> Body(h, i)]
    OBVIOUS
  <2> HIDE DEF h, Body
  <2> QED
    BY <2>1, <2>2
<1> DEFINE Bad == {m \in 0..n : \A h : ~Upto(h, m)}
<1> HIDE DEF Upto
<1>5. Bad = {}
  <2>1. ASSUME NEW m \in Bad PROVE \E j \in Bad : j < m
    <3>1. m # 0
      BY <1>4, <2>1
    <3>2. m - 1 \in 0..n /\ m - 1 < m /\ m \in 1..n
      BY <1>1, <3>1
    <3>3. ASSUME NEW g, Upto(g, m - 1) PROVE FALSE
      BY <1>3, <3>2, <3>3
    <3> QED
      BY <3>2, <3>3
  <2>2. Bad \subseteq Nat
    BY <1>1
  <2> HIDE DEF Bad
  <2> QED
    BY <2>1, <2>2, Induction
<1>6. PICK h : Upto(h, n)
  BY <1>1, <1>5
<1>7. n - n + 1..n = 1..n
  BY <1>1
<1>8. Draws(t, h)
  BY <1>6, <1>7, Zenon DEF Upto, Draws, n
<1> QED
  BY <1>8, DrawIs

(* The lines that may be drawn. *)
LinesOf(t) == [columns : Seq(Columns), of : 0..t.n]

(* The lines of a node are such lines, wherever it is drawn. *)
LEMMA MarginTypes ==
  ASSUME NEW t, IsTree(t), NEW i \in 1..t.n, NEW at \in Margins
  PROVE  /\ at.lead \in Seq(Columns) /\ at.prefix \in Seq(Columns)
         /\ \A kids, k : ChildMargin(at, kids, k) \in Margins
         /\ OwnLines(t, i, at) \in Seq(LinesOf(t))
<1>1. at.lead \in Seq(Columns) /\ at.prefix \in Seq(Columns)
  BY DEF Margins
<1>2. \A c \in Columns : Append(at.prefix, c) \in Seq(Columns)
  BY <1>1, AppendProperties
<1>3. "corner" \in Columns /\ "tee" \in Columns /\ "bar" \in Columns /\ "blank" \in Columns
  BY DEF Columns
<1>4. ASSUME NEW kids, NEW k PROVE ChildMargin(at, kids, k) \in Margins
  BY <1>2, <1>3 DEF ChildMargin, Margin, Margins, Below
<1>5. Line(at.lead, i) \in LinesOf(t) /\ Line(Append(at.prefix, "blank"), Nil) \in LinesOf(t)
  BY <1>1, <1>2, <1>3 DEF Line, LinesOf, IsTree, Nil
<1>6. OwnLines(t, i, at) \in Seq(LinesOf(t))
  <2> DEFINE a == Line(at.lead, i)
             b == Line(Append(at.prefix, "blank"), Nil)
             L == LinesOf(t)
  <2>1. a \in L /\ b \in L
    BY <1>5
  <2>2. OwnLines(t, i, at) = <<a>> \o (IF i \in t.multiline THEN <<b>> ELSE <<>>)
    BY DEF OwnLines
  <2> HIDE DEF a, b, L
  <2>3. <<a>> \in Seq(L) /\ (IF i \in t.multiline THEN <<b>> ELSE <<>>) \in Seq(L)
    BY <2>1
  <2>4. OwnLines(t, i, at) \in Seq(L)
    BY <2>2, <2>3, ConcatProperties
  <2> QED
    BY <2>4 DEF L
<1> QED
  BY <1>1, <1>4, <1>6

(* What a node is drawn as: its own lines, and the blocks below them. *)
LEMMA DrawAt ==
  ASSUME NEW t, IsTree(t), NEW i \in 1..t.n, NEW at \in Margins
  PROVE  Draw(t)[i][at] = OwnLines(t, i, at) \o FlattenSeq(BlocksBelow(t, Draw(t), i, at))
<1> DEFINE g == Draw(t)
           Body(j) == [a \in Margins |-> OwnLines(t, j, a) \o FlattenSeq(BlocksBelow(t, g, j, a))]
<1>1. g = [j \in 1..t.n |-> Body(j)]
  BY DrawDef, Zenon DEF Draws
<1>2. g[i] = Body(i)
  <2> HIDE DEF g, Body
  <2> QED
    BY <1>1
<1> HIDE DEF g
<1> QED
  BY <1>2 DEF g

(* The lines a node, and the nodes below it, are drawn as. *)
LEMMA DrawType ==
  ASSUME NEW t, IsTree(t)
  PROVE  \A i \in 1..t.n : \A at \in Margins :
           /\ Draw(t)[i][at] \in Seq(LinesOf(t))
           /\ BlocksBelow(t, Draw(t), i, at) \in Seq(Seq(LinesOf(t)))
<1> DEFINE Parts(i, at) == BlocksBelow(t, Draw(t), i, at)
           SL == Seq(LinesOf(t))
           Good == {i \in 1..t.n : \A at \in Margins : Draw(t)[i][at] \in SL /\ Parts(i, at) \in Seq(SL)}
<1>1. ASSUME NEW i \in 1..t.n, i + 1..t.n \subseteq Good PROVE i \in Good
  <2> SUFFICES ASSUME NEW at \in Margins PROVE Draw(t)[i][at] \in SL /\ Parts(i, at) \in Seq(SL)
    OBVIOUS
  <2> DEFINE kids == Built(t, i)
  <2>1. /\ Len(kids) \in Nat /\ DOMAIN kids = 1..Len(kids)
        /\ \A k \in DOMAIN kids : kids[k] \in i + 1..t.n
    BY BuiltType
  <2>2. \A k \in DOMAIN kids : ChildMargin(at, kids, k) \in Margins
    BY MarginTypes
  <2>3. \A k \in DOMAIN kids : Draw(t)[kids[k]][ChildMargin(at, kids, k)] \in SL
    <3> HIDE DEF kids
    <3> QED
      BY <1>1, <2>1, <2>2
  <2>4. Parts(i, at) = [k \in 1..Len(kids) |-> Draw(t)[kids[k]][ChildMargin(at, kids, k)]]
    BY <2>1 DEF BlocksBelow
  <2>5. Parts(i, at) \in Seq(SL)
    <3> HIDE DEF kids, Parts, SL
    <3> QED
      BY <2>1, <2>3, <2>4
  <2>6. FlattenSeq(Parts(i, at)) \in SL
    BY <2>5, FlattenType
  <2>7. OwnLines(t, i, at) \in SL
    BY MarginTypes
  <2>8. Draw(t)[i][at] \in SL
    <3> DEFINE own == OwnLines(t, i, at)
               below == FlattenSeq(Parts(i, at))
    <3>1. Draw(t)[i][at] = own \o below
      BY DrawAt
    <3>2. own \in SL /\ below \in SL
      BY <2>6, <2>7
    <3> HIDE DEF own, below
    <3> QED
      BY <3>1, <3>2, ConcatProperties
  <2> QED
    BY <2>5, <2>8
<1>2. t.n \in Nat
  BY DEF IsTree
<1> HIDE DEF Good
<1>3. 1..t.n \subseteq Good
  BY <1>1, <1>2, DownInduction
<1> QED
  BY <1>3 DEF Good

-----------------------------------------------------------------------------
(* What is shown of what is visited *)

(* Which nodes lines are about, and which are in a list, but for nil. *)
AllNodes(t) == Node(0..t.n)

NodeOf(t) == [x \in LinesOf(t) |-> IF x.of = Nil THEN <<>> ELSE <<x.of>>]

(* The nodes shown, line by line. *)
LEMMA ShownIsEach ==
  ASSUME NEW t, IsTree(t), NEW lines \in Seq(LinesOf(t))
  PROVE  /\ NodeOf(t) \in [LinesOf(t) -> Seq(0..t.n)]
         /\ Shown(lines) = Each(lines, NodeOf(t))
<1>1. /\ Len(lines) \in Nat /\ DOMAIN lines = 1..Len(lines)
      /\ \A k \in DOMAIN lines : lines[k] \in LinesOf(t)
  BY LenProperties, ElementOfSeq
<1>2. ASSUME NEW x \in LinesOf(t) PROVE (IF x.of = Nil THEN <<>> ELSE <<x.of>>) \in Seq(0..t.n)
  <2>1. x.of \in 0..t.n
    BY DEF LinesOf
  <2>2. CASE x.of = Nil
    BY <2>2
  <2>3. CASE x.of # Nil
    BY <2>1, <2>3
  <2> QED
    BY <2>2, <2>3
<1>3. NodeOf(t) \in [LinesOf(t) -> Seq(0..t.n)]
  BY <1>2 DEF NodeOf
<1>4. ASSUME NEW k \in DOMAIN lines
      PROVE  NodeOf(t)[lines[k]] = IF lines[k].of = Nil THEN <<>> ELSE <<lines[k].of>>
  BY <1>1 DEF NodeOf
<1> DEFINE of == [l \in DOMAIN lines |-> lines[l].of]
<1>5. DOMAIN of = DOMAIN lines /\ \A k \in DOMAIN lines : of[k] = lines[k].of
  OBVIOUS
<1> HIDE DEF of
<1>6. WithoutNil(of) = Each(lines, NodeOf(t))
  BY <1>4, <1>5 DEF WithoutNil, Each
<1> QED
  BY <1>3, <1>6 DEF Shown, of

(* Of a node's own lines, the first is about it. *)
LEMMA ShownOwn ==
  ASSUME NEW t, IsTree(t), NEW i \in 1..t.n, NEW at \in Margins
  PROVE  Each(OwnLines(t, i, at), NodeOf(t)) = <<i>>
<1> DEFINE a == Line(at.lead, i)
           b == Line(Append(at.prefix, "blank"), Nil)
           f == NodeOf(t)
           L == LinesOf(t)
           N == 0..t.n
<1>1. OwnLines(t, i, at) = <<a>> \o (IF i \in t.multiline THEN <<b>> ELSE <<>>)
  BY DEF OwnLines
<1>2. a \in L /\ b \in L
  <2>1. at.lead \in Seq(Columns) /\ Append(at.prefix, "blank") \in Seq(Columns)
    BY MarginTypes, AppendProperties DEF Columns
  <2>2. i \in 0..t.n /\ Nil \in 0..t.n
    BY DEF IsTree, Nil
  <2> QED
    BY <2>1, <2>2 DEF LinesOf, Line
<1>3. f[a] = <<i>> /\ f[b] = <<>>
  <2>1. a.of = i /\ b.of = Nil /\ i # Nil
    BY DEF Line, Nil
  <2> HIDE DEF a, b
  <2> QED
    BY <1>2, <2>1 DEF NodeOf
<1>4. f \in [L -> Seq(N)]
  <2>1. <<>> \in Seq(LinesOf(t))
    OBVIOUS
  <2> QED
    BY <2>1, ShownIsEach
<1>5. i \in N
  BY DEF IsTree
<1> HIDE DEF a, b, f, L, N
<1>6. Each(<<a>> \o <<b>>, f) = f[a] \o f[b]
  <2>1. <<a>> \in Seq(L) /\ <<b>> \in Seq(L)
    BY <1>2
  <2>2. Each(<<a>> \o <<b>>, f) = Each(<<a>>, f) \o Each(<<b>>, f)
    BY <1>4, <2>1, EachConcat
  <2> QED
    BY <2>2, EachOne
<1>7. Each(<<a>> \o <<>>, f) = f[a]
  <2>1. <<a>> \o <<>> = <<a>>
    BY <1>2
  <2> QED
    BY <2>1, EachOne
<1>8. <<i>> \o <<>> = <<i>>
  BY <1>5
<1>9. Each(OwnLines(t, i, at), f) = <<i>>
  BY <1>1, <1>3, <1>6, <1>7, <1>8
<1> QED
  BY <1>9 DEF f

(* The nodes shown below each node, as a list that leaves out nil nodes. *)
Physical(t) == [i \in 0..t.n |-> Each(PreOrder(t)[i], AllNodes(t))]

(* If nothing is claimed for a node, they are it and what is below its children. *)
LEMMA PhysicalAt ==
  ASSUME NEW t, IsTree(t)
  PROVE  /\ Physical(t) \in [0..t.n -> Seq(0..t.n)]
         /\ AllNodes(t) \in [0..t.n -> Seq(0..t.n)]
         /\ Physical(t)[Nil] = <<>>
         /\ \A i \in 1..t.n : Claimed(t, i) = t.children[i] =>
              Physical(t)[i] = <<i>> \o Each(Built(t, i), Physical(t))
<1> DEFINE N == 0..t.n
           d == AllNodes(t)
           g == PreOrder(t)
           F == Physical(t)
<1>1. t.n \in Nat /\ Nil \in N
  BY DEF IsTree, Nil
<1>2. d \in [N -> Seq(N)] /\ d[Nil] = <<>> /\ \A x \in N : x # Nil => d[x] = <<x>>
  <2>1. ASSUME NEW x \in N PROVE (IF x = Nil THEN <<>> ELSE <<x>>) \in Seq(N)
    <3>1. CASE x = Nil
      BY <3>1
    <3>2. CASE x # Nil
      BY <3>2
    <3> QED
      BY <3>1, <3>2
  <2> QED
    BY <1>1, <2>1 DEF AllNodes, Node
<1>3. g \in [N -> Seq(N)]
  BY PreOrderType
<1>4. F = [x \in N |-> Each(g[x], d)]
  BY DEF Physical
<1>5. g[Nil] = <<Nil>>
  <2>1. g[Nil] = <<Nil>> \o <<>>
    BY <1>1, PreOrderAt, Zenon
  <2> HIDE DEF g
  <2> QED
    BY <1>1, <2>1
<1>6. ASSUME NEW i \in 1..t.n, Claimed(t, i) = t.children[i]
      PROVE  g[i] = <<i>> \o Each(t.children[i], g) /\ t.children[i] \in Seq(N)
             /\ i \in N /\ i # Nil /\ Built(t, i) = Each(t.children[i], d)
  <2>1. i \in N /\ i # Nil
    BY <1>1 DEF Nil
  <2>2. g[i] = <<i>> \o Each(t.children[i], g)
    BY <1>6, <2>1, PreOrderAt, Zenon
  <2>3. t.children[i] \in Seq(N)
    BY <1>6, ClaimedIsLogical, ListMembers
  <2>4. Built(t, i) = Each(t.children[i], d)
    <3> DEFINE list == t.children[i]
    <3>1. list \in Seq(N)
      BY <2>3
    <3> HIDE DEF list, N
    <3>2. WithoutNil(list) = Each(list, Node(N))
      BY <3>1, WithoutNilIsEach
    <3> QED
      BY <3>2 DEF Built, AllNodes, N, list
  <2> QED
    BY <2>1, <2>2, <2>3, <2>4
<1> HIDE DEF N, d, g, F
<1>7. F \in [N -> Seq(N)] /\ \A x \in N : F[x] = Each(g[x], d)
  BY <1>2, <1>3, <1>4, EachParts
<1>8. F[Nil] = <<>>
  BY <1>1, <1>2, <1>5, <1>7, EachOne
<1>9. ASSUME NEW x \in N PROVE F[x] = Each(d[x], F)
  BY <1>2, <1>8, EachOne, EachEmpty
<1>10. ASSUME NEW i \in 1..t.n, Claimed(t, i) = t.children[i]
       PROVE  F[i] = <<i>> \o Each(Built(t, i), F)
  <2> DEFINE c == t.children[i]
  <2>1. g[i] = <<i>> \o Each(c, g) /\ c \in Seq(N) /\ i \in N /\ i # Nil /\ Built(t, i) = Each(c, d)
    BY <1>6, <1>10
  <2>0. Gives(d, N, N) /\ Gives(g, N, N) /\ Gives(F, N, N)
    BY <1>2, <1>3, <1>7 DEF Gives
  <2>6. c \in Seq(N)
    BY <2>1
  <2>7. \A x \in N : F[x] = Each(g[x], d)
    BY <1>7
  <2> HIDE DEF c
  <2>2. Each(Built(t, i), F) = Each(c, F)
    <3>1. Each(Each(c, d), F) = Each(c, F)
      BY <1>9, <2>0, <2>6, EachEach
    <3> QED
      BY <2>1, <3>1
  <2>3. Each(Each(c, g), d) = Each(c, F)
    BY <2>0, <2>6, <2>7, EachEach
  <2>4. <<i>> \in Seq(N) /\ Each(c, g) \in Seq(N)
    <3>1. Each(c, g) \in Seq(N)
      BY <1>3, <2>1, EachParts
    <3> QED
      BY <2>1, <3>1
  <2>5. F[i] = Each(<<i>>, d) \o Each(Each(c, g), d)
    <3>1. Each(<<i>> \o Each(c, g), d) = Each(<<i>>, d) \o Each(Each(c, g), d)
      BY <1>2, <2>4, EachConcat
    <3> QED
      BY <1>7, <2>1, <3>1
  <2> QED
    BY <1>2, <2>1, <2>2, <2>3, <2>5, EachOne
<1> QED
  BY <1>2, <1>7, <1>8, <1>10 DEF N, d, F

(* With no children claimed, the drawing shows what is visited, but for nil. *)
LEMMA DrawShowsPhysical ==
  ASSUME NEW t, IsTree(t), \A i \in 1..t.n : Claimed(t, i) = t.children[i]
  PROVE  \A i \in 1..t.n : \A at \in Margins : Each(Draw(t)[i][at], NodeOf(t)) = Physical(t)[i]
<1> DEFINE f == NodeOf(t)
           g == Draw(t)
           F == Physical(t)
           L == LinesOf(t)
           N == 0..t.n
           Good == {i \in 1..t.n : \A at \in Margins : Each(g[i][at], f) = F[i]}
<1>1. f \in [L -> Seq(N)] /\ t.n \in Nat
  <2>1. <<>> \in Seq(LinesOf(t))
    OBVIOUS
  <2> QED
    BY <2>1, ShownIsEach DEF IsTree
<1>2. ASSUME NEW i \in 1..t.n, i + 1..t.n \subseteq Good PROVE i \in Good
  <2> SUFFICES ASSUME NEW at \in Margins PROVE Each(g[i][at], f) = F[i]
    OBVIOUS
  <2> DEFINE own == OwnLines(t, i, at)
             blocks == BlocksBelow(t, g, i, at)
             kids == Built(t, i)
             m == [s \in Seq(L) |-> Each(s, f)]
  <2>1. own \in Seq(L) /\ blocks \in Seq(Seq(L)) /\ g[i][at] = own \o FlattenSeq(blocks)
    BY MarginTypes, DrawType, DrawAt
  <2>2. Each(own, f) = <<i>> /\ F[i] = <<i>> \o Each(kids, F)
    BY ShownOwn, PhysicalAt
  <2>3. /\ DOMAIN blocks = DOMAIN kids
        /\ \A k \in DOMAIN kids : blocks[k] = g[kids[k]][ChildMargin(at, kids, k)]
    BY DEF BlocksBelow
  <2>4. \A k \in DOMAIN kids : Each(blocks[k], f) = F[kids[k]]
    <3>1. \A k \in DOMAIN kids : kids[k] \in i + 1..t.n /\ ChildMargin(at, kids, k) \in Margins
      BY BuiltType, MarginTypes
    <3> HIDE DEF kids, blocks, f, g, F
    <3> QED
      BY <1>2, <2>3, <3>1
  <2> HIDE DEF own, blocks, kids, f, g, F, L, N
  <2>5. Each(FlattenSeq(blocks), f) = Each(blocks, m)
    BY <1>1, <2>1, EachFlatten
  <2>6. Each(blocks, m) = Each(kids, F)
    <3>1. \A k \in DOMAIN blocks : blocks[k] \in Seq(L)
      BY <2>1, LenProperties, ElementOfSeq
    <3>2. \A k \in DOMAIN blocks : m[blocks[k]] = F[kids[k]]
      BY <2>3, <2>4, <3>1
    <3> HIDE DEF m
    <3> QED
      BY <2>3, <3>2 DEF Each
  <2>7. Each(g[i][at], f) = Each(own, f) \o Each(FlattenSeq(blocks), f)
    <3>1. FlattenSeq(blocks) \in Seq(L)
      BY <2>1, FlattenType
    <3> QED
      BY <1>1, <2>1, <3>1, EachConcat
  <2> QED
    BY <2>2, <2>5, <2>6, <2>7
<1> HIDE DEF Good
<1>3. 1..t.n \subseteq Good
  BY <1>1, <1>2, DownInduction
<1> QED
  BY <1>3 DEF Good

(* A list without the nil node has nothing to leave out. *)
LEMMA NothingLeftOut ==
  ASSUME NEW N, NEW s \in Seq(N)
  PROVE  ~Contains(s, Nil) => Each(s, Node(N)) = s
<1> DEFINE d == Node(N)
           Good == {u \in Seq(N) : ~Contains(u, Nil) => Each(u, d) = u}
<1>1. d \in [N -> Seq(N)] /\ \A x \in N : x # Nil => d[x] = <<x>>
  <2>1. ASSUME NEW x \in N PROVE (IF x = Nil THEN <<>> ELSE <<x>>) \in Seq(N)
    <3>1. CASE x = Nil
      BY <3>1
    <3>2. CASE x # Nil
      BY <3>2
    <3> QED
      BY <3>1, <3>2
  <2> QED
    BY <2>1 DEF Node
<1> HIDE DEF d
<1>2. <<>> \in Good
  BY EachEmpty, EmptySeq
<1>3. ASSUME NEW u \in Seq(N), NEW x \in N, u \in Good PROVE Append(u, x) \in Good
  <2>1. Append(u, x) \in Seq(N)
    BY AppendProperties
  <2>2. Contains(Append(u, x), Nil) <=> Contains(u, Nil) \/ Nil = x
    BY AppendMembers
  <2>3. Each(Append(u, x), d) = Each(u, d) \o d[x]
    BY <1>1, EachAppend
  <2>4. u \o <<x>> = Append(u, x)
    OBVIOUS
  <2> QED
    BY <1>1, <1>3, <2>1, <2>2, <2>3, <2>4
<1> HIDE DEF Good
<1>4. Seq(N) \subseteq Good
  BY <1>2, <1>3, SeqInduction
<1> QED
  BY <1>4 DEF Good, d

(* The root is drawn at the left (printer.go:214). *)
LEMMA RootMargin == Margin(<<>>, <<>>) \in Margins
  BY DEF Margin, Margins

(* A walk goes as it would without the printer, which changes nothing of it
   (printer.go:135-143): every step is one of the walk or stutters. *)
THEOREM InspectIsWalk == InspectSpec => WalkSpec
<1>1. InspectInit => WalkInit
  BY DEF InspectInit
<1>2. [InspectNext]_allVars => [WalkNext]_walkVars
  BY DEF InspectNext, Fprint, allVars
<1> QED
  BY <1>1, <1>2, PTL DEF InspectSpec, WalkSpec

(* What is printed is the drawing of the tree that is walked (printer.go:137-139). *)
LEMMA InspectInvariant == InspectSpec => []InspectInv
<1>1. InspectInit => OutputInv
  BY DEF InspectInit, OutputInv
<1>2. OutputInv /\ [InspectNext]_allVars => OutputInv'
  <2> SUFFICES ASSUME OutputInv, [InspectNext]_allVars PROVE OutputInv'
    OBVIOUS
  <2>1. tree' = tree
    BY DEF InspectNext, WalkNext, Stop, Visit, HandUp, WalkReturns, Fprint, allVars, walkVars
  <2>2. CASE Fprint
    BY <2>1, <2>2 DEF Fprint, OutputInv
  <2>3. CASE UNCHANGED output
    BY <2>1, <2>3 DEF OutputInv
  <2> QED
    BY <2>2, <2>3 DEF InspectNext, allVars
<1>3. InspectInv <=> WalkInv /\ OutputInv
  BY DEF InspectInv
<1> QED
  BY <1>1, <1>2, <1>3, InspectIsWalk, WalkInvariant, PTL DEF InspectSpec

(* Walk visits the conceptual tree also while the tree is printed. *)
THEOREM InspectWalkCorrect == InspectSpec => []WalkVisitsLogicalTree
  BY InspectIsWalk, WalkCorrect, PTL

(* Nothing is claimed for a node whose last structure is none, or that has none. *)
LEMMA PlainClaims ==
  ASSUME NEW t, IsTree(t), NEW i \in 1..t.n,
         t.wraps[i] # <<>> =>
           \E k \in 1..Len(t.wraps[i]) :
             /\ t.wraps[i][k] = Attached("structure", Cleared)
             /\ \A l \in 1..k - 1 : t.wraps[i][l].key # "structure"
  PROVE  Claimed(t, i) = t.children[i]
<1> DEFINE w == t.wraps[i]
           Plain == \E k \in 1..Len(w) :
                      /\ w[k] = Attached("structure", Cleared)
                      /\ \A l \in 1..k - 1 : w[l].key # "structure"
           IsLast(k) == w[k].key = "structure" /\ \A j \in 1..k - 1 : w[j].key # "structure"
           Loud == \E k \in DOMAIN w : IsLast(k) /\ w[k].value # Cleared
<1>1. w # <<>> => Plain
  OBVIOUS
<1>2. Len(w) \in Nat /\ DOMAIN w = 1..Len(w)
  BY LenProperties DEF IsTree, Wraps
<1>3. ~Loud => Claimed(t, i) = t.children[i]
  BY DEF Claimed
<1> HIDE DEF w
<1>4. CASE w = <<>>
  BY <1>3, <1>4
<1>5. CASE w # <<>>
  <2>1. PICK k \in 1..Len(w) : /\ w[k] = Attached("structure", Cleared)
                               /\ \A l \in 1..k - 1 : w[l].key # "structure"
    BY <1>1, <1>5
  <2>2. w[k].key = "structure" /\ w[k].value = Cleared
    BY <2>1 DEF Attached
  <2>3. ASSUME NEW j \in DOMAIN w, IsLast(j) PROVE j = k
    BY <1>2, <2>1, <2>2, <2>3
  <2> QED
    BY <1>3, <2>2, <2>3
<1> QED
  BY <1>4, <1>5

(* With no structure attached, or none left, Walk visits what the printer draws, for
   every tree: clearing a structure goes back to the expansion of the node
   (metadata.go:155). *)
THEOREM WalkMatchesDrawing == InspectSpec => []WalkVisitsWhatIsDrawn
<1>1. InspectInv => WalkVisitsWhatIsDrawn
  <2> DEFINE t == tree
             N == 0..t.n
             at == Margin(<<>>, <<>>)
             Plain == \A i \in 1..t.n : t.wraps[i] # <<>> =>
                        \E k \in 1..Len(t.wraps[i]) :
                          /\ t.wraps[i][k] = Attached("structure", Cleared)
                          /\ \A l \in 1..k - 1 : t.wraps[i][l].key # "structure"
  <2> SUFFICES ASSUME InspectInv, state = "done", output # <<>>, Plain
               PROVE  visited = Shown(output)
    BY DEF WalkVisitsWhatIsDrawn
  <2>1. IsTree(t) /\ visited = PreOrder(t)[Root] /\ ~Contains(visited, Nil) /\ visited \in Seq(N)
    BY DEF InspectInv, WalkInv, WalkVisitsLogicalTree
  <2>2. output = Draw(t)[Root][at] /\ Root \in 1..t.n /\ Root \in N /\ at \in Margins
    BY <2>1, RootIsNode, RootMargin DEF InspectInv, OutputInv
  <2>3. \A i \in 1..t.n : Claimed(t, i) = t.children[i]
    BY <2>1, PlainClaims
  <2>4. Shown(output) = Physical(t)[Root]
    <3> HIDE DEF t, at
    <3>1. output \in Seq(LinesOf(t))
      BY <2>1, <2>2, DrawType
    <3>2. Shown(output) = Each(output, NodeOf(t))
      BY <2>1, <3>1, ShownIsEach
    <3> QED
      BY <2>1, <2>2, <2>3, <3>2, DrawShowsPhysical
  <2>5. Physical(t)[Root] = Each(visited, Node(N))
    BY <2>1, <2>2 DEF Physical, AllNodes
  <2>6. Each(visited, Node(N)) = visited
    <3> HIDE DEF N
    <3> QED
      BY <2>1, NothingLeftOut
  <2> QED
    BY <2>4, <2>5, <2>6
<1> QED
  BY <1>1, InspectInvariant, PTL

-----------------------------------------------------------------------------
(* Connectors: what a node is drawn as meets the line below, which begins a
   sibling of the node, or of a node above it. *)

(* What the columns of lines are, given what is below the last. *)
Chain(lines, below) ==
  \A l \in DOMAIN lines :
    Meets(lines[l].columns, IF l < Len(lines) THEN lines[l + 1].columns ELSE below)

(* Lines above others: the first of these is what is below them. *)
LEMMA ChainConcat ==
  ASSUME NEW L, NEW a \in Seq(L), NEW b \in Seq(L), b # <<>>,
         NEW below, Chain(a, b[1].columns), Chain(b, below)
  PROVE  Chain(a \o b, below)
<1> DEFINE m == Len(a)
           n == Len(b)
           c == a \o b
<1>1. /\ m \in Nat /\ n \in Nat \ {0} /\ DOMAIN a = 1..m /\ DOMAIN b = 1..n
      /\ Len(c) = m + n /\ DOMAIN c = 1..m + n
      /\ \A k \in 1..m + n : c[k] = IF k <= m THEN a[k] ELSE b[k - m]
  BY LenProperties, ConcatProperties, EmptySeq
<1> HIDE DEF m, n, c
<1>2. SUFFICES ASSUME NEW l \in 1..m + n
               PROVE  Meets(c[l].columns, IF l < m + n THEN c[l + 1].columns ELSE below)
  BY <1>1 DEF Chain, c
<1>3. CASE l < m
  <2>1. l \in DOMAIN a /\ l + 1 \in 1..m + n /\ l + 1 <= m /\ l < m + n /\ l <= m
    BY <1>1, <1>3
  <2>2. c[l] = a[l] /\ c[l + 1] = a[l + 1]
    BY <1>1, <2>1
  <2>3. Meets(a[l].columns, a[l + 1].columns)
    BY <1>3, <2>1 DEF Chain, m
  <2> QED
    BY <2>1, <2>2, <2>3
<1>4. CASE l = m
  <2>1. l \in DOMAIN a /\ l + 1 \in 1..m + n /\ ~(l + 1 <= m) /\ l < m + n /\ l <= m /\ l + 1 - m = 1
    BY <1>1, <1>4
  <2>2. c[l] = a[l] /\ c[l + 1] = b[1]
    BY <1>1, <2>1
  <2>3. Meets(a[l].columns, b[1].columns)
    <3>1. Meets(a[l].columns, IF l < m THEN a[l + 1].columns ELSE b[1].columns)
      BY <2>1 DEF Chain, m
    <3>2. ~(l < m)
      BY <1>1, <1>4
    <3> QED
      BY <3>1, <3>2
  <2> QED
    BY <2>1, <2>2, <2>3
<1>5. CASE l > m
  <2>1. l - m \in DOMAIN b /\ ~(l <= m) /\ (l < m + n <=> l - m < n)
    BY <1>1, <1>5
  <2>2. c[l] = b[l - m]
    BY <1>1, <2>1
  <2>3. l < m + n => c[l + 1] = b[l - m + 1]
    <3> SUFFICES ASSUME l < m + n PROVE c[l + 1] = b[l - m + 1]
      OBVIOUS
    <3>1. l + 1 \in 1..m + n /\ ~(l + 1 <= m) /\ l + 1 - m = l - m + 1
      BY <1>1, <1>5
    <3> QED
      BY <1>1, <3>1
  <2>4. Meets(b[l - m].columns, IF l - m < n THEN b[l - m + 1].columns ELSE below)
    BY <2>1 DEF Chain, n
  <2> QED
    BY <2>1, <2>2, <2>3, <2>4
<1> QED
  BY <1>1, <1>3, <1>4, <1>5

(* Blocks of lines, one after the other. *)
BlocksMeet(ss, below) ==
  \A k \in DOMAIN ss :
    /\ ss[k] # <<>>
    /\ Chain(ss[k], IF k < Len(ss) THEN ss[k + 1][1].columns ELSE below)

(* Blocks that meet give lines that do. *)
LEMMA BlocksChain ==
  ASSUME NEW L, NEW ss \in Seq(Seq(L)), NEW below, BlocksMeet(ss, below)
  PROVE  /\ Chain(FlattenSeq(ss), below)
         /\ ss # <<>> => FlattenSeq(ss) # <<>> /\ FlattenSeq(ss)[1] = ss[1][1]
<1> DEFINE Holds(u, x) == /\ Chain(FlattenSeq(u), x)
                          /\ u # <<>> => FlattenSeq(u) # <<>> /\ FlattenSeq(u)[1] = u[1][1]
           Good == {u \in Seq(Seq(L)) : \A x : BlocksMeet(u, x) => Holds(u, x)}
<1>1. <<>> \in Good
  BY FlattenEmpty, EmptySeq DEF Chain
<1>2. ASSUME NEW u \in Seq(Seq(L)), NEW s \in Seq(L), u \in Good PROVE Append(u, s) \in Good
  <2> DEFINE v == Append(u, s)
             n == Len(u)
  <2>1. /\ v \in Seq(Seq(L)) /\ n \in Nat /\ Len(v) = n + 1 /\ DOMAIN v = 1..n + 1 /\ DOMAIN u = 1..n
        /\ v[n + 1] = s /\ \A k \in 1..n : v[k] = u[k]
    <3> DEFINE T == Seq(L)
    <3>1. u \in Seq(T) /\ s \in T
      OBVIOUS
    <3> HIDE DEF T
    <3>2. Append(u, s) \in Seq(T) /\ Len(Append(u, s)) = Len(u) + 1
          /\ Append(u, s)[Len(u) + 1] = s /\ \A k \in 1..Len(u) : Append(u, s)[k] = u[k]
      BY <3>1, AppendProperties
    <3>3. Len(u) \in Nat /\ DOMAIN u = 1..Len(u) /\ DOMAIN Append(u, s) = 1..Len(Append(u, s))
      BY <3>1, <3>2, LenProperties
    <3> QED
      BY <3>2, <3>3 DEF T
  <2>2. FlattenSeq(v) = FlattenSeq(u) \o s /\ FlattenSeq(u) \in Seq(L)
    BY FlattenAppend, FlattenType
  <2> HIDE DEF v, n
  <2>3. ASSUME NEW x, BlocksMeet(v, x) PROVE Holds(v, x)
    <3>1. s # <<>> /\ Chain(s, x)
      <4>1. n + 1 \in DOMAIN v /\ ~(n + 1 < Len(v))
        BY <2>1
      <4>2. v[n + 1] # <<>> /\ Chain(v[n + 1], IF n + 1 < Len(v) THEN v[n + 1 + 1][1].columns ELSE x)
        BY <2>3, <4>1 DEF BlocksMeet
      <4> QED
        BY <2>1, <4>1, <4>2
    <3>2. BlocksMeet(u, s[1].columns)
      <4> SUFFICES ASSUME NEW k \in 1..n
                   PROVE  u[k] # <<>> /\ Chain(u[k], IF k < n THEN u[k + 1][1].columns ELSE s[1].columns)
        BY <2>1 DEF BlocksMeet, n
      <4>1. k \in DOMAIN v /\ k < n + 1 /\ v[k] = u[k]
        BY <2>1
      <4>2. u[k] # <<>> /\ Chain(u[k], v[k + 1][1].columns)
        BY <2>1, <2>3, <4>1 DEF BlocksMeet
      <4>3. v[k + 1] = IF k < n THEN u[k + 1] ELSE s
        <5>1. CASE k < n
          <6>1. k + 1 \in 1..n
            BY <2>1, <5>1
          <6> QED
            BY <2>1, <5>1, <6>1
        <5>2. CASE ~(k < n)
          <6>1. k + 1 = n + 1
            BY <2>1, <5>2
          <6> QED
            BY <2>1, <5>2, <6>1
        <5> QED
          BY <5>1, <5>2
      <4> QED
        BY <4>2, <4>3
    <3>3. Holds(u, s[1].columns)
      BY <1>2, <3>2
    <3>4. Chain(FlattenSeq(v), x)
      BY <2>2, <3>1, <3>3, ConcatProperties, ChainConcat
    <3>5. v # <<>> => FlattenSeq(v) # <<>> /\ FlattenSeq(v)[1] = v[1][1]
      <4> DEFINE f == FlattenSeq(u)
      <4>1. /\ Len(f) \in Nat /\ Len(s) \in Nat \ {0} /\ f \o s \in Seq(L) /\ Len(f \o s) = Len(f) + Len(s)
            /\ \A k \in 1..Len(f) + Len(s) : (f \o s)[k] = IF k <= Len(f) THEN f[k] ELSE s[k - Len(f)]
        BY <2>2, <3>1, LenProperties, EmptySeq, ConcatProperties
      <4>2. CASE n = 0
        <5>1. u = <<>>
          BY <2>1, <4>2, EmptySeq DEF n
        <5>2. f = <<>>
          BY <5>1, FlattenEmpty
        <5>3. Len(f) = 0 /\ 1 \in 1..Len(f) + Len(s) /\ (f \o s)[1] = s[1]
          BY <4>1, <5>2, EmptySeq
        <5>4. v[1] = s
          BY <2>1, <4>2
        <5> QED
          BY <2>2, <3>1, <4>1, <5>3, <5>4, EmptySeq
      <4>3. CASE n # 0
        <5>1. u # <<>> /\ 1 \in 1..n
          BY <2>1, <4>3, EmptySeq DEF n
        <5>2. f # <<>> /\ f[1] = u[1][1] /\ v[1] = u[1]
          BY <2>1, <3>3, <5>1
        <5>3. Len(f) \in Nat \ {0}
          BY <2>2, <5>2, EmptySeq
        <5>4. (f \o s)[1] = f[1]
          BY <4>1, <5>3
        <5> QED
          BY <2>2, <4>1, <5>2, <5>3, <5>4, EmptySeq
      <4> QED
        BY <4>2, <4>3
    <3> QED
      BY <3>4, <3>5
  <2> HIDE DEF Holds
  <2> QED
    BY <2>1, <2>3 DEF v
<1> HIDE DEF Good
<1>3. Seq(Seq(L)) \subseteq Good
  BY <1>1, <1>2, SeqInduction
<1> QED
  BY <1>3 DEF Good

(* One column more. *)
LEMMA OneColumnMore ==
  ASSUME NEW p \in Seq(Columns), NEW x \in Columns
  PROVE  /\ Append(p, x) \in Seq(Columns) /\ Len(p) \in Nat /\ Len(Append(p, x)) = Len(p) + 1
         /\ DOMAIN p = 1..Len(p) /\ DOMAIN Append(p, x) = 1..Len(p) + 1
         /\ Append(p, x)[Len(p) + 1] = x
         /\ \A c \in 1..Len(p) : Append(p, x)[c] = p[c]
  BY AppendProperties, LenProperties

(* One column more in both lines. *)
LEMMA MeetsAppend ==
  ASSUME NEW p \in Seq(Columns), NEW x \in Columns, NEW y \in Columns, Meets(p, p),
         x \in {"bar", "tee"} => y \in {"bar", "tee", "corner"}, x = "corner" => y = "blank"
  PROVE  Meets(Append(p, x), Append(p, y))
<1> DEFINE a == Append(p, x)
           b == Append(p, y)
<1>1. /\ Len(p) \in Nat /\ DOMAIN p = 1..Len(p) /\ DOMAIN a = 1..Len(p) + 1 /\ DOMAIN b = 1..Len(p) + 1
      /\ a[Len(p) + 1] = x /\ b[Len(p) + 1] = y
      /\ \A c \in 1..Len(p) : a[c] = p[c] /\ b[c] = p[c]
  BY OneColumnMore
<1> HIDE DEF a, b
<1>2. ASSUME NEW c \in 1..Len(p) + 1
      PROVE  /\ a[c] \in {"bar", "tee"} => b[c] \in {"bar", "tee", "corner"}
             /\ a[c] = "corner" => b[c] = "blank"
  <2>1. CASE c = Len(p) + 1
    BY <1>1, <2>1
  <2>2. CASE c # Len(p) + 1
    <3>1. c \in 1..Len(p)
      BY <1>1, <2>2
    <3> QED
      BY <1>1, <3>1 DEF Meets
  <2> QED
    BY <2>1, <2>2
<1> QED
  BY <1>1, <1>2 DEF Meets, a, b

(* One column more in the line below only. *)
LEMMA MeetsLonger ==
  ASSUME NEW q \in Seq(Columns), NEW p \in Seq(Columns), NEW y \in Columns, Len(q) = Len(p), Meets(q, p)
  PROVE  Meets(q, Append(p, y))
<1>1. /\ Len(p) \in Nat /\ DOMAIN q = 1..Len(p) /\ DOMAIN p = 1..Len(p) /\ DOMAIN Append(p, y) = 1..Len(p) + 1
      /\ \A c \in 1..Len(p) : Append(p, y)[c] = p[c] /\ c \in 1..Len(p) + 1
  BY OneColumnMore, LenProperties
<1> QED
  BY <1>1 DEF Meets

(* One column more in the line above only, which ends with it. *)
LEMMA MeetsShorter ==
  ASSUME NEW p \in Seq(Columns), NEW x \in {"corner", "blank"}, NEW below \in Seq(Columns),
         Len(below) <= Len(p), Meets(p, below)
  PROVE  Meets(Append(p, x), below)
<1>1. x \in Columns
  BY DEF Columns
<1>2. /\ Len(p) \in Nat /\ DOMAIN p = 1..Len(p) /\ DOMAIN Append(p, x) = 1..Len(p) + 1
      /\ Append(p, x)[Len(p) + 1] = x
      /\ \A c \in 1..Len(p) : Append(p, x)[c] = p[c]
      /\ Len(below) \in Nat /\ DOMAIN below = 1..Len(below)
  BY <1>1, OneColumnMore, LenProperties
<1>3. ASSUME NEW c \in 1..Len(p) + 1
      PROVE  /\ Append(p, x)[c] \in {"bar", "tee"} => c \in DOMAIN below /\ below[c] \in {"bar", "tee", "corner"}
             /\ Append(p, x)[c] = "corner" /\ c \in DOMAIN below => below[c] = "blank"
  <2>1. CASE c = Len(p) + 1
    BY <1>2, <2>1
  <2>2. CASE c # Len(p) + 1
    <3>1. c \in 1..Len(p)
      BY <1>2, <2>2
    <3> QED
      BY <1>2, <3>1 DEF Meets
  <2> QED
    BY <2>1, <2>2
<1> QED
  BY <1>2, <1>3 DEF Meets

(* Where a node can be drawn, and what can be in the line below its last. *)
Fits(at, below) ==
  /\ Len(at.lead) = Len(at.prefix) /\ Len(below) <= Len(at.prefix)
  /\ Meets(at.lead, at.prefix) /\ Meets(at.prefix, at.prefix)
  /\ Meets(at.lead, below) /\ Meets(at.prefix, below)

(* So can its children. *)
LEMMA ChildFits ==
  ASSUME NEW at \in Margins, NEW below \in Seq(Columns), Fits(at, below), NEW kids, Len(kids) \in Nat,
         NEW k \in 1..Len(kids)
  PROVE  Fits(ChildMargin(at, kids, k), IF k < Len(kids) THEN ChildMargin(at, kids, k + 1).lead ELSE below)
<1> DEFINE p == at.prefix
           c == ChildMargin(at, kids, k)
           x == IF k = Len(kids) THEN "corner" ELSE "tee"
           y == IF k = Len(kids) THEN "blank" ELSE "bar"
           z == IF k + 1 = Len(kids) THEN "corner" ELSE "tee"
           next == IF k < Len(kids) THEN Append(p, z) ELSE below
<1>1. c.lead = Append(p, x) /\ c.prefix = Append(p, y) /\ ChildMargin(at, kids, k + 1).lead = Append(p, z)
  BY DEF ChildMargin, Margin, Below
<1>2. p \in Seq(Columns) /\ Meets(p, p) /\ Meets(p, below) /\ Len(below) <= Len(p)
  BY DEF Margins, Fits
<1>3. x \in Columns /\ y \in Columns /\ z \in Columns
  BY DEF Columns
<1> HIDE DEF p, c
<1>4. Len(Append(p, x)) = Len(p) + 1 /\ Len(Append(p, y)) = Len(p) + 1 /\ Len(p) \in Nat
      /\ Len(Append(p, z)) = Len(p) + 1 /\ Len(below) \in Nat
  BY <1>2, <1>3, OneColumnMore, LenProperties
<1>5. Len(next) <= Len(p) + 1
  BY <1>2, <1>4
<1>6. Meets(Append(p, x), Append(p, y))
  BY <1>2, <1>3, MeetsAppend
<1>7. Meets(Append(p, y), Append(p, y))
  BY <1>2, <1>3, MeetsAppend
<1>8. Meets(Append(p, x), next) /\ Meets(Append(p, y), next)
  <2>1. CASE k < Len(kids)
    <3>1. x = "tee" /\ y = "bar" /\ z \in {"tee", "corner"} /\ next = Append(p, z)
      BY <2>1
    <3> HIDE DEF x, y, z, next
    <3> QED
      BY <1>2, <1>3, <3>1, MeetsAppend
  <2>2. CASE ~(k < Len(kids))
    <3>1. x = "corner" /\ y = "blank" /\ next = below
      BY <2>2
    <3> HIDE DEF x, y, z, next
    <3> QED
      BY <1>2, <3>1, MeetsShorter
  <2> QED
    BY <2>1, <2>2
<1> HIDE DEF x, y, z
<1>9. Fits(c, next)
  <2> HIDE DEF next
  <2> QED
    BY <1>1, <1>4, <1>5, <1>6, <1>7, <1>8 DEF Fits
<1> QED
  BY <1>1, <1>9 DEF c

(* A node's own lines, of which the first begins with its lead. *)
LEMMA OwnChain ==
  ASSUME NEW t, IsTree(t), NEW i \in 1..t.n, NEW at \in Margins,
         NEW below, Meets(at.lead, Append(at.prefix, "blank")), Meets(at.lead, below),
         Meets(Append(at.prefix, "blank"), below)
  PROVE  /\ Chain(OwnLines(t, i, at), below)
         /\ OwnLines(t, i, at) # <<>> /\ OwnLines(t, i, at)[1] = Line(at.lead, i)
<1> DEFINE a == Line(at.lead, i)
           b == Line(Append(at.prefix, "blank"), Nil)
           own == OwnLines(t, i, at)
<1>1. /\ a.columns = at.lead /\ b.columns = Append(at.prefix, "blank")
      /\ own = <<a>> \o (IF i \in t.multiline THEN <<b>> ELSE <<>>)
  BY DEF Line, OwnLines
<1> HIDE DEF a, b, own
<1>2. CASE i \in t.multiline
  <2>1. own = <<a, b>>
    BY <1>1, <1>2, OneOrTwo
  <2>2. DOMAIN own = {1, 2} /\ own[1] = a /\ own[2] = b /\ Len(own) = 2 /\ own # <<>>
    BY <2>1
  <2>3. Meets(own[1].columns, own[2].columns) /\ Meets(own[2].columns, below)
    BY <1>1, <2>2
  <2>4. ASSUME NEW l \in {1, 2}
        PROVE  Meets(own[l].columns, IF l < 2 THEN own[l + 1].columns ELSE below)
    <3>1. CASE l = 1
      BY <2>3, <3>1
    <3>2. CASE l = 2
      BY <2>3, <3>2
    <3> QED
      BY <3>1, <3>2
  <2>5. Chain(own, below)
    BY <2>2, <2>4 DEF Chain
  <2> QED
    BY <2>2, <2>5 DEF own, a
<1>3. CASE i \notin t.multiline
  <2>1. own = <<a>>
    BY <1>1, <1>3, OneOrTwo
  <2>2. DOMAIN own = {1} /\ own[1] = a /\ Len(own) = 1 /\ own # <<>>
    BY <2>1
  <2>3. Meets(own[1].columns, below) /\ ~(1 < Len(own))
    BY <1>1, <2>2
  <2>4. Chain(own, below)
    BY <2>2, <2>3 DEF Chain
  <2> QED
    BY <2>2, <2>4 DEF own, a
<1> QED
  BY <1>2, <1>3

(* The first line of what a node is drawn as. *)
LEMMA DrawFirst ==
  ASSUME NEW t, IsTree(t), NEW i \in 1..t.n, NEW at \in Margins
  PROVE  Draw(t)[i][at] # <<>> /\ Draw(t)[i][at][1] = Line(at.lead, i)
<1> DEFINE L == LinesOf(t)
           own == OwnLines(t, i, at)
           a == Line(at.lead, i)
           b == Line(Append(at.prefix, "blank"), Nil)
           rest == FlattenSeq(BlocksBelow(t, Draw(t), i, at))
<1>1. own \in Seq(L) /\ rest \in Seq(L) /\ Draw(t)[i][at] = own \o rest
  BY MarginTypes, DrawType, DrawAt, FlattenType
<1>2. own = <<a>> \o (IF i \in t.multiline THEN <<b>> ELSE <<>>)
  BY DEF OwnLines
<1> HIDE DEF own, rest, a, b
<1>3. own = <<a>> \/ own = <<a, b>>
  BY <1>2, OneOrTwo
<1>4. own # <<>> /\ own[1] = a
  BY <1>3
<1> HIDE DEF L
<1>5. own \o rest # <<>> /\ (own \o rest)[1] = own[1]
  BY <1>1, <1>4, FirstOfConcat
<1> QED
  BY <1>1, <1>4, <1>5 DEF a

(* What a node is drawn as meets what is below it, wherever it can be drawn. *)
LEMMA DrawChain ==
  ASSUME NEW t, IsTree(t)
  PROVE  \A i \in 1..t.n : \A at \in Margins : \A below \in Seq(Columns) :
           Fits(at, below) => Chain(Draw(t)[i][at], below)
<1> DEFINE L == LinesOf(t)
           g == Draw(t)
           Good == {i \in 1..t.n : \A at \in Margins : \A below \in Seq(Columns) :
                      Fits(at, below) => Chain(g[i][at], below)}
<1>1. ASSUME NEW i \in 1..t.n, i + 1..t.n \subseteq Good PROVE i \in Good
  <2> SUFFICES ASSUME NEW at \in Margins, NEW below \in Seq(Columns), Fits(at, below)
               PROVE  Chain(g[i][at], below)
    OBVIOUS
  <2> DEFINE own == OwnLines(t, i, at)
             blocks == BlocksBelow(t, g, i, at)
             kids == Built(t, i)
             C(k) == ChildMargin(at, kids, k)
             rest == FlattenSeq(blocks)
  <2>1. /\ own \in Seq(L) /\ blocks \in Seq(Seq(L)) /\ g[i][at] = own \o rest
        /\ at.lead \in Seq(Columns) /\ at.prefix \in Seq(Columns)
        /\ \A k : C(k) \in Margins /\ C(k).lead \in Seq(Columns)
    BY MarginTypes, DrawType, DrawAt DEF Margins
  <2>2. /\ Len(kids) \in Nat /\ DOMAIN kids = 1..Len(kids)
        /\ \A k \in DOMAIN kids : kids[k] \in i + 1..t.n
    BY BuiltType
  <2>3. blocks = [k \in DOMAIN kids |-> g[kids[k]][C(k)]]
    BY DEF BlocksBelow
  <2>4. \A k \in 1..Len(kids) : g[kids[k]][C(k)] # <<>> /\ g[kids[k]][C(k)][1].columns = C(k).lead
    <3> SUFFICES ASSUME NEW k \in 1..Len(kids)
                 PROVE  g[kids[k]][C(k)] # <<>> /\ g[kids[k]][C(k)][1].columns = C(k).lead
      OBVIOUS
    <3>1. kids[k] \in 1..t.n /\ C(k) \in Margins
      <4>1. kids[k] \in i + 1..t.n /\ C(k) \in Margins /\ t.n \in Nat
        BY <2>1, <2>2 DEF IsTree
      <4> HIDE DEF kids, C
      <4> QED
        BY <4>1
    <3> HIDE DEF kids, C
    <3>2. g[kids[k]][C(k)] # <<>> /\ g[kids[k]][C(k)][1] = Line(C(k).lead, kids[k])
      BY <3>1, DrawFirst
    <3> QED
      BY <3>2 DEF Line
  <2>5. \A k \in 1..Len(kids) : Fits(C(k), IF k < Len(kids) THEN C(k + 1).lead ELSE below)
    BY <2>2, ChildFits
  <2>6. ASSUME NEW k \in 1..Len(kids)
        PROVE  Chain(g[kids[k]][C(k)], IF k < Len(kids) THEN C(k + 1).lead ELSE below)
    <3> HIDE DEF kids, C, g
    <3>1. (IF k < Len(kids) THEN C(k + 1).lead ELSE below) \in Seq(Columns)
      BY <2>1
    <3> QED
      BY <1>1, <2>1, <2>2, <2>5, <3>1
  <2>7. BlocksMeet(blocks, below)
    <3> HIDE DEF kids, C, g, blocks
    <3>1. DOMAIN blocks = 1..Len(kids) /\ Len(blocks) = Len(kids)
      BY <2>2, <2>3
    <3>2. ASSUME NEW k \in 1..Len(kids), k < Len(kids) PROVE blocks[k + 1][1].columns = C(k + 1).lead
      <4>1. k + 1 \in 1..Len(kids)
        BY <2>2, <3>2
      <4> QED
        BY <2>2, <2>3, <2>4, <4>1
    <3>3. ASSUME NEW k \in 1..Len(kids)
          PROVE  /\ blocks[k] # <<>>
                 /\ Chain(blocks[k], IF k < Len(blocks) THEN blocks[k + 1][1].columns ELSE below)
      <4>1. blocks[k] = g[kids[k]][C(k)]
        BY <2>2, <2>3
      <4>2. CASE k < Len(kids)
        BY <2>4, <2>6, <3>1, <3>2, <4>1, <4>2
      <4>3. CASE ~(k < Len(kids))
        BY <2>4, <2>6, <3>1, <4>1, <4>3
      <4> QED
        BY <4>2, <4>3
    <3> QED
      BY <3>1, <3>3 DEF BlocksMeet
  <2>8. rest \in Seq(L) /\ Chain(rest, below) /\ (blocks # <<>> => rest # <<>> /\ rest[1] = blocks[1][1])
    <3> HIDE DEF L, blocks
    <3> QED
      BY <2>1, <2>7, BlocksChain, FlattenType
  <2>9. /\ Len(at.lead) = Len(at.prefix) /\ Meets(at.lead, at.prefix) /\ Meets(at.prefix, at.prefix)
        /\ Meets(at.lead, below) /\ Meets(at.prefix, below) /\ Len(below) <= Len(at.prefix)
    BY DEF Fits
  <2>10. "blank" \in Columns /\ "tee" \in Columns /\ "corner" \in Columns
    BY DEF Columns
  <2>11. Meets(at.lead, Append(at.prefix, "blank"))
    BY <2>1, <2>9, <2>10, MeetsLonger
  <2>12. CASE blocks = <<>>
    <3>1. rest = <<>>
      BY <2>12, FlattenEmpty
    <3>2. Meets(Append(at.prefix, "blank"), below)
      BY <2>1, <2>9, MeetsShorter
    <3>3. Chain(own, below)
      BY <2>9, <2>11, <3>2, OwnChain
    <3>4. own \o <<>> = own
      BY <2>1, ConcatEmptySeq
    <3> QED
      BY <2>1, <3>1, <3>3, <3>4
  <2>13. CASE blocks # <<>>
    <3>1. 1 \in 1..Len(kids)
      <4> HIDE DEF kids, C, g, blocks
      <4>1. Len(blocks) = Len(kids)
        BY <2>2, <2>3
      <4> QED
        BY <2>1, <2>2, <2>13, <4>1, EmptySeq
    <3> DEFINE next == C(1).lead
    <3>2. rest # <<>> /\ rest[1].columns = next
      <4> HIDE DEF kids, C, g, blocks, rest
      <4> QED
        BY <2>2, <2>3, <2>4, <2>8, <2>13, <3>1
    <3>3. next = Append(at.prefix, "tee") \/ next = Append(at.prefix, "corner")
      BY DEF ChildMargin, Margin
    <3>4. Meets(at.lead, next) /\ Meets(Append(at.prefix, "blank"), next)
      <4> HIDE DEF next
      <4>1. \A x \in Columns : Meets(at.lead, Append(at.prefix, x))
        BY <2>1, <2>9, MeetsLonger
      <4>2. \A x \in Columns : Meets(Append(at.prefix, "blank"), Append(at.prefix, x))
        BY <2>1, <2>9, <2>10, MeetsAppend
      <4> QED
        BY <2>10, <3>3, <4>1, <4>2
    <3>5. Chain(own, next)
      <4> HIDE DEF next
      <4> QED
        BY <2>11, <3>4, OwnChain
    <3> HIDE DEF kids, C, g, blocks, rest, own, L, next
    <3>6. Chain(own \o rest, below)
      BY <2>1, <2>8, <3>2, <3>5, ChainConcat
    <3> QED
      BY <2>1, <3>6
  <2> QED
    BY <2>12, <2>13
<1>2. t.n \in Nat
  BY DEF IsTree
<1> HIDE DEF Good
<1>3. 1..t.n \subseteq Good
  BY <1>1, <1>2, DownInduction
<1> QED
  BY <1>3 DEF Good

(* So does the drawing of the whole tree, which has nothing below it. *)
LEMMA DrawingMeets ==
  ASSUME NEW t, IsTree(t)
  PROVE  ConnectorsMeet(Draw(t)[Root][Margin(<<>>, <<>>)])
<1> DEFINE at == Margin(<<>>, <<>>)
<1>1. at.lead = <<>> /\ at.prefix = <<>>
  BY DEF Margin
<1>2. Fits(at, <<>>)
  BY <1>1 DEF Fits, Meets
<1>3. Chain(Draw(t)[Root][at], <<>>)
  <2>1. <<>> \in Seq(Columns) /\ Root \in 1..t.n /\ at \in Margins
    BY RootIsNode, RootMargin
  <2> HIDE DEF at
  <2> QED
    BY <1>2, <2>1, DrawChain
<1> QED
  BY <1>3 DEF Chain, ConnectorsMeet

-----------------------------------------------------------------------------
(* Reading back: the lines below a node are a forest, one column deeper. *)

(* What the children of line j are read as, line by line. *)
Reads(F, j) == [k \in DOMAIN F |-> IF IsParent(F, j, k) THEN <<F[k].of>> ELSE <<>>]

(* They are sequences of nodes, and their concatenation is what is read. *)
LEMMA ReadsType ==
  ASSUME NEW t, NEW F \in Seq(LinesOf(t)), NEW j
  PROVE  /\ Reads(F, j) \in Seq(Seq(0..t.n)) /\ Len(Reads(F, j)) = Len(F)
         /\ DOMAIN F = 1..Len(F) /\ Len(F) \in Nat
         /\ FlattenSeq(Reads(F, j)) = ChildrenRead(F, j)
         /\ ChildrenRead(F, j) \in Seq(0..t.n)
         /\ \A k \in DOMAIN F : /\ F[k] \in LinesOf(t) /\ F[k].of \in 0..t.n /\ Len(F[k].columns) \in Nat
                                /\ Reads(F, j)[k] = IF IsParent(F, j, k) THEN <<F[k].of>> ELSE <<>>
<1>1. Len(F) \in Nat /\ DOMAIN F = 1..Len(F) /\ \A k \in DOMAIN F : F[k] \in LinesOf(t)
  BY LenProperties, ElementOfSeq
<1>2. \A k \in DOMAIN F : F[k].of \in 0..t.n /\ F[k].columns \in Seq(Columns)
  BY <1>1 DEF LinesOf
<1>3. \A k \in DOMAIN F : Len(F[k].columns) \in Nat
  BY <1>2, LenProperties
<1>4. ASSUME NEW k \in DOMAIN F
      PROVE  (IF IsParent(F, j, k) THEN <<F[k].of>> ELSE <<>>) \in Seq(0..t.n)
  <2>1. CASE IsParent(F, j, k)
    BY <1>2, <2>1
  <2>2. CASE ~IsParent(F, j, k)
    BY <2>2
  <2> QED
    BY <2>1, <2>2
<1>5. Reads(F, j) \in Seq(Seq(0..t.n)) /\ Len(Reads(F, j)) = Len(F)
  <2> DEFINE T == Seq(0..t.n)
             R(k) == IF IsParent(F, j, k) THEN <<F[k].of>> ELSE <<>>
  <2>1. \A k \in 1..Len(F) : R(k) \in T
    BY <1>1, <1>4
  <2>2. Reads(F, j) = [k \in 1..Len(F) |-> R(k)]
    BY <1>1 DEF Reads
  <2> HIDE DEF T, R
  <2> QED
    BY <1>1, <2>1, <2>2 DEF T
<1>6. FlattenSeq(Reads(F, j)) = ChildrenRead(F, j)
  BY DEF Reads, ChildrenRead
<1> QED
  BY <1>1, <1>2, <1>3, <1>5, <1>6, FlattenType DEF Reads

(* Lines from depth d on that tell the trees they are about: every line deeper
   than d has the line of a parent, and the children read are those built. *)
Forest(t, F, d) ==
  \A k \in DOMAIN F :
    /\ Len(F[k].columns) >= d
    /\ Len(F[k].columns) = d \/ \E h \in DOMAIN F : IsParent(F, h, k)
    /\ ChildrenRead(F, k) = Built(t, F[k].of)

(* Lines that tell their trees above others that do. *)
LEMMA ForestConcat ==
  ASSUME NEW t, NEW F \in Seq(LinesOf(t)), NEW G \in Seq(LinesOf(t)), NEW d \in Nat,
         Forest(t, F, d), Forest(t, G, d)
  PROVE  Forest(t, F \o G, d)
<1> DEFINE H == F \o G
           m == Len(F)
           n == Len(G)
<1>1. /\ H \in Seq(LinesOf(t)) /\ m \in Nat /\ n \in Nat /\ Len(H) = m + n
      /\ DOMAIN H = 1..m + n /\ DOMAIN F = 1..m /\ DOMAIN G = 1..n
      /\ \A k \in 1..m + n : H[k] = IF k <= m THEN F[k] ELSE G[k - m]
  BY LenProperties, ConcatProperties
<1>2. /\ \A k \in 1..m : Len(F[k].columns) \in Nat /\ Len(F[k].columns) >= d
      /\ \A k \in 1..n : Len(G[k].columns) \in Nat /\ Len(G[k].columns) >= d
      /\ \A k \in 1..n : Len(G[k].columns) = d \/ \E h \in 1..n : IsParent(G, h, k)
  BY <1>1, ReadsType DEF Forest
<1> HIDE DEF H, m, n
<1>3. /\ \A k \in 1..m : k \in 1..m + n /\ H[k] = F[k]
      /\ \A k \in 1..n : m + k \in 1..m + n /\ H[m + k] = G[k]
  <2>1. ASSUME NEW k \in 1..n PROVE m + k \in 1..m + n /\ H[m + k] = G[k]
    <3>1. m + k \in 1..m + n /\ ~(m + k <= m) /\ m + k - m = k
      BY <1>1
    <3> QED
      BY <1>1, <3>1
  <2>2. ASSUME NEW k \in 1..m PROVE k \in 1..m + n /\ H[k] = F[k]
    <3>1. k \in 1..m + n /\ k <= m
      BY <1>1
    <3> QED
      BY <1>1, <3>1
  <2> QED
    BY <2>1, <2>2
<1>4. ASSUME NEW j \in 1..m, NEW k \in 1..m PROVE IsParent(H, j, k) <=> IsParent(F, j, k)
  <2>1. \A h \in j + 1..k - 1 : h \in 1..m
    BY <1>1
  <2> QED
    BY <1>3, <2>1 DEF IsParent
<1>5. ASSUME NEW j \in 1..n, NEW k \in 1..n PROVE IsParent(H, m + j, m + k) <=> IsParent(G, j, k)
  <2>1. m + j < m + k <=> j < k
    BY <1>1
  <2>2. (\A h \in m + j + 1..m + k - 1 : Len(H[h].columns) # Len(G[j].columns))
        <=> (\A h \in j + 1..k - 1 : Len(G[h].columns) # Len(G[j].columns))
    <3>1. ASSUME NEW h \in j + 1..k - 1 PROVE m + h \in m + j + 1..m + k - 1 /\ H[m + h] = G[h]
      <4>1. h \in 1..n /\ m + h \in m + j + 1..m + k - 1
        BY <1>1
      <4> QED
        BY <1>3, <4>1
    <3>2. ASSUME NEW h \in m + j + 1..m + k - 1 PROVE h - m \in j + 1..k - 1 /\ H[h] = G[h - m]
      <4>1. h - m \in 1..n /\ h - m \in j + 1..k - 1 /\ m + (h - m) = h
        BY <1>1
      <4> QED
        BY <1>3, <4>1
    <3> QED
      BY <1>1, <3>1, <3>2
  <2>3. H[m + j] = G[j] /\ H[m + k] = G[k]
    BY <1>3
  <2>4. IsParent(H, m + j, m + k) <=>
          /\ m + j < m + k /\ Len(G[k].columns) = Len(G[j].columns) + 1
          /\ \A h \in m + j + 1..m + k - 1 : Len(H[h].columns) # Len(G[j].columns)
    <3> DEFINE a == m + j
               b == m + k
    <3>1. IsParent(H, a, b) <=>
            /\ a < b /\ Len(H[b].columns) = Len(H[a].columns) + 1
            /\ \A h \in a + 1..b - 1 : Len(H[h].columns) # Len(H[a].columns)
      BY DEF IsParent
    <3> QED
      BY <1>1, <2>3, <3>1
  <2>5. IsParent(G, j, k) <=>
          /\ j < k /\ Len(G[k].columns) = Len(G[j].columns) + 1
          /\ \A h \in j + 1..k - 1 : Len(G[h].columns) # Len(G[j].columns)
    BY Zenon DEF IsParent
  <2> QED
    BY <2>1, <2>2, <2>4, <2>5
<1>6. ASSUME NEW j \in 1..m, NEW k \in 1..n, IsParent(H, j, m + k) PROVE FALSE
  <2>1. /\ Len(G[k].columns) = Len(F[j].columns) + 1
        /\ \A h \in j + 1..m + k - 1 : Len(H[h].columns) # Len(F[j].columns)
    <3>1. H[j] = F[j] /\ H[m + k] = G[k]
      BY <1>3
    <3> DEFINE b == m + k
    <3>2. /\ Len(H[b].columns) = Len(H[j].columns) + 1
          /\ \A h \in j + 1..b - 1 : Len(H[h].columns) # Len(H[j].columns)
      BY <1>6 DEF IsParent
    <3> QED
      BY <1>1, <3>1, <3>2
  <2>2. PICK h \in 1..n : IsParent(G, h, k)
    BY <1>2, <2>1
  <2>3. h < k /\ Len(G[k].columns) = Len(G[h].columns) + 1
    BY <2>2 DEF IsParent
  <2>4. Len(G[h].columns) = Len(F[j].columns)
    BY <1>2, <2>1, <2>3
  <2>5. m + h \in j + 1..m + k - 1 /\ H[m + h] = G[h]
    BY <1>1, <1>3, <2>3
  <2> QED
    BY <2>1, <2>4, <2>5
<1>7. ASSUME NEW j \in 1..n, NEW k \in 1..m PROVE ~IsParent(H, m + j, k)
  BY <1>1 DEF IsParent
<1>8. ASSUME NEW j
      PROVE  /\ Reads(H, j) = [k \in 1..m + n |-> Reads(H, j)[k]]
             /\ FlattenSeq(Reads(H, j)) = ChildrenRead(H, j)
             /\ \A k \in 1..m : Reads(H, j)[k] = IF IsParent(H, j, k) THEN <<F[k].of>> ELSE <<>>
             /\ \A k \in 1..n : Reads(H, j)[m + k] = IF IsParent(H, j, m + k) THEN <<G[k].of>> ELSE <<>>
  <2>1. Reads(H, j) = [k \in 1..m + n |-> Reads(H, j)[k]]
    BY <1>1 DEF Reads
  <2>2. FlattenSeq(Reads(H, j)) = ChildrenRead(H, j)
    BY DEF Reads, ChildrenRead
  <2>3. \A k \in 1..m + n : Reads(H, j)[k] = IF IsParent(H, j, k) THEN <<H[k].of>> ELSE <<>>
    BY <1>1 DEF Reads
  <2> QED
    BY <1>3, <2>1, <2>2, <2>3
<1> DEFINE T == Seq(0..t.n)
           NoneF == [k \in 1..m |-> <<>>]
           NoneG == [k \in 1..n |-> <<>>]
<1>9. /\ NoneF \in Seq(T) /\ NoneG \in Seq(T) /\ Len(NoneF) = m /\ Len(NoneG) = n
      /\ FlattenSeq(NoneF) = <<>> /\ FlattenSeq(NoneG) = <<>>
  <2>1. NoneF \in Seq(T) /\ NoneG \in Seq(T) /\ Len(NoneF) = m /\ Len(NoneG) = n
    BY <1>1
  <2>2. (\A k \in DOMAIN NoneF : NoneF[k] = <<>>) /\ (\A k \in DOMAIN NoneG : NoneG[k] = <<>>)
    OBVIOUS
  <2> HIDE DEF NoneF, NoneG
  <2> QED
    BY <2>1, <2>2, FlattenNothing
<1>10. ASSUME NEW j \in 1..m PROVE ChildrenRead(H, j) = ChildrenRead(F, j)
  <2> DEFINE p == Reads(F, j)
             r == Reads(H, j)
  <2>1. p \in Seq(T) /\ Len(p) = m /\ FlattenSeq(p) = ChildrenRead(F, j) /\ FlattenSeq(p) \in T
    BY ReadsType DEF m
  <2>2. \A k \in 1..m : r[k] = p[k]
    BY <1>1, <1>4, <1>8, ReadsType
  <2>3. \A k \in 1..n : r[m + k] = NoneG[k]
    BY <1>6, <1>8
  <2>4. r = [k \in 1..m + n |-> r[k]]
    BY <1>8
  <2> HIDE DEF NoneG, p, r
  <2>5. FlattenSeq(r) = FlattenSeq(p) \o FlattenSeq(NoneG)
    BY <1>9, <2>1, <2>2, <2>3, <2>4, FlattenParts
  <2>6. FlattenSeq(p) \o <<>> = FlattenSeq(p)
    BY <2>1, ConcatEmptySeq
  <2> QED
    BY <1>8, <1>9, <2>1, <2>5, <2>6 DEF r
<1>11. ASSUME NEW j \in 1..n PROVE ChildrenRead(H, m + j) = ChildrenRead(G, j)
  <2> DEFINE q == Reads(G, j)
             r == Reads(H, m + j)
  <2>1. q \in Seq(T) /\ Len(q) = n /\ FlattenSeq(q) = ChildrenRead(G, j) /\ FlattenSeq(q) \in T
    BY ReadsType DEF n
  <2>2. \A k \in 1..m : r[k] = NoneF[k]
    BY <1>7, <1>8
  <2>3. \A k \in 1..n : r[m + k] = q[k]
    <3> SUFFICES ASSUME NEW k \in 1..n PROVE r[m + k] = q[k]
      OBVIOUS
    <3>1. r[m + k] = IF IsParent(H, m + j, m + k) THEN <<G[k].of>> ELSE <<>>
      BY <1>8
    <3>2. q[k] = IF IsParent(G, j, k) THEN <<G[k].of>> ELSE <<>>
      BY <1>1, ReadsType
    <3> HIDE DEF r, q
    <3> QED
      BY <1>5, <3>1, <3>2
  <2>4. r = [k \in 1..m + n |-> r[k]]
    BY <1>8
  <2> HIDE DEF NoneF, q, r
  <2>5. FlattenSeq(r) = FlattenSeq(NoneF) \o FlattenSeq(q)
    BY <1>9, <2>1, <2>2, <2>3, <2>4, FlattenParts
  <2>6. <<>> \o FlattenSeq(q) = FlattenSeq(q)
    BY <2>1, ConcatEmptySeq
  <2> QED
    BY <1>8, <1>9, <2>1, <2>5, <2>6 DEF r
<1>12. ASSUME NEW k \in 1..m + n
       PROVE  /\ Len(H[k].columns) >= d
              /\ Len(H[k].columns) = d \/ \E h \in 1..m + n : IsParent(H, h, k)
              /\ ChildrenRead(H, k) = Built(t, H[k].of)
  <2>1. CASE k <= m
    <3>1. k \in 1..m
      BY <1>1, <2>1
    <3>2. /\ Len(F[k].columns) >= d
          /\ Len(F[k].columns) = d \/ \E h \in 1..m : IsParent(F, h, k)
          /\ ChildrenRead(F, k) = Built(t, F[k].of)
      BY <1>1, <3>1 DEF Forest
    <3> QED
      BY <1>3, <1>4, <1>10, <3>1, <3>2
  <2>2. CASE ~(k <= m)
    <3> DEFINE i == k - m
    <3>1. i \in 1..n /\ k = m + i
      BY <1>1, <2>2
    <3> HIDE DEF i
    <3>2. /\ Len(G[i].columns) >= d
          /\ Len(G[i].columns) = d \/ \E h \in 1..n : IsParent(G, h, i)
          /\ ChildrenRead(G, i) = Built(t, G[i].of)
      BY <1>1, <3>1 DEF Forest
    <3>3. (\E h \in 1..n : IsParent(G, h, i)) => \E h \in 1..m + n : IsParent(H, h, k)
      BY <1>3, <1>5, <3>1
    <3> QED
      BY <1>3, <1>11, <3>1, <3>2, <3>3
  <2> QED
    BY <2>1, <2>2
<1> QED
  BY <1>1, <1>12 DEF Forest, H

(* Blocks of lines that tell their trees. *)
LEMMA ForestFlatten ==
  ASSUME NEW t, NEW d \in Nat, NEW ss \in Seq(Seq(LinesOf(t))),
         \A k \in DOMAIN ss : Forest(t, ss[k], d)
  PROVE  Forest(t, FlattenSeq(ss), d)
<1> DEFINE T == Seq(LinesOf(t))
           Good == {u \in Seq(T) : (\A k \in DOMAIN u : Forest(t, u[k], d)) => Forest(t, FlattenSeq(u), d)}
<1>1. <<>> \in Good
  BY FlattenEmpty, EmptySeq DEF Forest
<1>2. ASSUME NEW u \in Seq(T), NEW s \in T, u \in Good PROVE Append(u, s) \in Good
  <2>1. FlattenSeq(Append(u, s)) = FlattenSeq(u) \o s /\ FlattenSeq(u) \in T
    BY FlattenAppend, FlattenType
  <2>2. Forest(t, FlattenSeq(u), d) /\ Forest(t, s, d) => Forest(t, FlattenSeq(u) \o s, d)
    BY <2>1, ForestConcat
  <2> HIDE DEF T
  <2>3. /\ Append(u, s) \in Seq(T) /\ Len(u) \in Nat /\ DOMAIN u = 1..Len(u)
        /\ DOMAIN Append(u, s) = 1..Len(u) + 1 /\ Append(u, s)[Len(u) + 1] = s
        /\ \A k \in 1..Len(u) : Append(u, s)[k] = u[k]
    BY AppendProperties, LenProperties
  <2>4. ASSUME \A k \in DOMAIN Append(u, s) : Forest(t, Append(u, s)[k], d)
        PROVE  Forest(t, s, d) /\ \A k \in DOMAIN u : Forest(t, u[k], d)
    <3>1. Len(u) + 1 \in DOMAIN Append(u, s) /\ \A k \in DOMAIN u : k \in DOMAIN Append(u, s)
      BY <2>3
    <3>2. Forest(t, Append(u, s)[Len(u) + 1], d)
      BY <2>4, <3>1
    <3>3. ASSUME NEW k \in DOMAIN u PROVE Forest(t, u[k], d)
      <4>1. Forest(t, Append(u, s)[k], d)
        BY <2>4, <3>1
      <4> QED
        BY <2>3, <4>1
    <3> QED
      BY <2>3, <3>2, <3>3
  <2> QED
    BY <1>2, <2>1, <2>2, <2>3, <2>4
<1> HIDE DEF Good
<1>3. Seq(T) \subseteq Good
  BY <1>1, <1>2, SeqInduction
<1> QED
  BY <1>3 DEF Good

(* The nodes of the lines that are d deep. *)
TopOf(t, d) == [x \in LinesOf(t) |-> IF Len(x.columns) = d THEN <<x.of>> ELSE <<>>]

(* They are nodes of the tree. *)
LEMMA TopsType ==
  ASSUME NEW t, NEW d
  PROVE  TopOf(t, d) \in [LinesOf(t) -> Seq(0..t.n)]
<1>1. ASSUME NEW x \in LinesOf(t) PROVE (IF Len(x.columns) = d THEN <<x.of>> ELSE <<>>) \in Seq(0..t.n)
  <2>1. x.of \in 0..t.n
    BY DEF LinesOf
  <2>2. CASE Len(x.columns) = d
    BY <2>1, <2>2
  <2>3. CASE Len(x.columns) # d
    BY <2>3
  <2> QED
    BY <2>2, <2>3
<1> QED
  BY <1>1 DEF TopOf

(* A line above lines that are deeper: the ones one column deeper are read as
   its children, and the others' children are read as before. *)
LEMMA ForestRoot ==
  ASSUME NEW t, NEW x \in LinesOf(t), NEW F \in Seq(LinesOf(t)), NEW d \in Nat,
         Len(x.columns) = d, Forest(t, F, d + 1), Each(F, TopOf(t, d + 1)) = Built(t, x.of)
  PROVE  /\ Forest(t, <<x>> \o F, d)
         /\ Each(<<x>> \o F, TopOf(t, d)) = <<x.of>>
<1> DEFINE L == LinesOf(t)
           H == <<x>> \o F
           n == Len(F)
<1>1. /\ <<x>> \in Seq(L) /\ H \in Seq(L) /\ n \in Nat /\ Len(H) = n + 1
      /\ DOMAIN H = 1..n + 1 /\ DOMAIN F = 1..n
      /\ H[1] = x /\ \A k \in 1..n : k + 1 \in 1..n + 1 /\ H[k + 1] = F[k]
  <2>1. <<x>> \in Seq(L) /\ Len(<<x>>) = 1 /\ <<x>>[1] = x
    OBVIOUS
  <2>2. /\ H \in Seq(L) /\ n \in Nat /\ Len(H) = 1 + n
        /\ DOMAIN H = 1..1 + n /\ DOMAIN F = 1..n
        /\ \A k \in 1..1 + n : H[k] = IF k <= 1 THEN <<x>>[k] ELSE F[k - 1]
    <3> HIDE DEF L
    <3> QED
      BY <2>1, LenProperties, ConcatProperties DEF L
  <2> HIDE DEF H, n
  <2>3. H[1] = x
    BY <2>1, <2>2
  <2>4. ASSUME NEW k \in 1..n PROVE k + 1 \in 1..n + 1 /\ H[k + 1] = F[k]
    <3>1. k + 1 \in 1..1 + n /\ ~(k + 1 <= 1) /\ k + 1 - 1 = k /\ 1 + n = n + 1
      BY <2>2
    <3> QED
      BY <2>2, <3>1
  <2> QED
    BY <2>1, <2>2, <2>3, <2>4
<1>2. /\ \A k \in 1..n : F[k] \in L /\ Len(F[k].columns) \in Nat /\ Len(F[k].columns) >= d + 1
      /\ \A k \in 1..n : Len(F[k].columns) = d + 1 \/ \E h \in 1..n : IsParent(F, h, k)
      /\ \A k \in 1..n : ChildrenRead(F, k) = Built(t, F[k].of)
  BY <1>1, ReadsType DEF Forest
<1> HIDE DEF H, n
<1>3. ASSUME NEW k \in 1..n PROVE IsParent(H, 1, k + 1) <=> Len(F[k].columns) = d + 1
  <2>1. ASSUME NEW h \in 2..k PROVE Len(H[h].columns) # d
    <3>1. h - 1 \in 1..n /\ h - 1 + 1 = h
      BY <1>1
    <3>2. H[h] = F[h - 1] /\ Len(F[h - 1].columns) \in Nat /\ Len(F[h - 1].columns) >= d + 1
      BY <1>1, <1>2, <3>1
    <3> QED
      BY <3>2
  <2>2. H[1] = x /\ H[k + 1] = F[k] /\ 1 < k + 1 /\ 1 + 1..k + 1 - 1 = 2..k
    BY <1>1
  <2> DEFINE b == k + 1
  <2>3. IsParent(H, 1, b) <=> /\ 1 < b /\ Len(H[b].columns) = Len(H[1].columns) + 1
                              /\ \A h \in 1 + 1..b - 1 : Len(H[h].columns) # Len(H[1].columns)
    BY DEF IsParent
  <2> QED
    BY <2>1, <2>2, <2>3
<1>4. ASSUME NEW j \in 1..n, NEW k \in 1..n PROVE IsParent(H, j + 1, k + 1) <=> IsParent(F, j, k)
  <2> DEFINE a == j + 1
             b == k + 1
  <2>1. IsParent(H, a, b) <=> /\ a < b /\ Len(H[b].columns) = Len(H[a].columns) + 1
                              /\ \A h \in a + 1..b - 1 : Len(H[h].columns) # Len(H[a].columns)
    BY DEF IsParent
  <2>2. H[a] = F[j] /\ H[b] = F[k] /\ (a < b <=> j < k)
    BY <1>1
  <2>3. (\A h \in a + 1..b - 1 : Len(H[h].columns) # Len(F[j].columns))
        <=> (\A h \in j + 1..k - 1 : Len(F[h].columns) # Len(F[j].columns))
    <3>1. ASSUME NEW h \in j + 1..k - 1 PROVE h + 1 \in a + 1..b - 1 /\ H[h + 1] = F[h]
      <4>1. h \in 1..n /\ h + 1 \in a + 1..b - 1
        BY <1>1
      <4> QED
        BY <1>1, <4>1
    <3>2. ASSUME NEW h \in a + 1..b - 1 PROVE h - 1 \in j + 1..k - 1 /\ H[h] = F[h - 1]
      <4>1. h - 1 \in 1..n /\ h - 1 \in j + 1..k - 1 /\ h - 1 + 1 = h
        BY <1>1
      <4> QED
        BY <1>1, <4>1
    <3> HIDE DEF a, b
    <3> QED
      BY <3>1, <3>2
  <2>4. IsParent(F, j, k) <=> /\ j < k /\ Len(F[k].columns) = Len(F[j].columns) + 1
                              /\ \A h \in j + 1..k - 1 : Len(F[h].columns) # Len(F[j].columns)
    BY DEF IsParent
  <2> HIDE DEF a, b
  <2>5. IsParent(H, a, b) <=> IsParent(F, j, k)
    BY <2>1, <2>2, <2>3, <2>4
  <2> QED
    BY <2>5 DEF a, b
<1>5. ASSUME NEW j \in 1..n + 1 PROVE ~IsParent(H, j, 1)
  BY <1>1 DEF IsParent
<1> DEFINE T == Seq(0..t.n)
           none == <<<<>>>>
<1>6. none \in Seq(T) /\ Len(none) = 1 /\ none[1] = <<>> /\ FlattenSeq(none) = <<>>
  <2>1. <<>> \in T
    OBVIOUS
  <2> HIDE DEF T
  <2> QED
    BY <2>1, FlattenOne
<1>7. ASSUME NEW j \in 1..n + 1
      PROVE  /\ Reads(H, j) = [k \in 1..n + 1 |-> Reads(H, j)[k]]
             /\ FlattenSeq(Reads(H, j)) = ChildrenRead(H, j)
             /\ Reads(H, j)[1] = <<>>
             /\ \A k \in 1..n : Reads(H, j)[k + 1] = IF IsParent(H, j, k + 1) THEN <<F[k].of>> ELSE <<>>
  <2>1. Reads(H, j) = [k \in 1..n + 1 |-> Reads(H, j)[k]]
    BY <1>1 DEF Reads
  <2>2. FlattenSeq(Reads(H, j)) = ChildrenRead(H, j)
    BY DEF Reads, ChildrenRead
  <2>3. \A k \in 1..n + 1 : Reads(H, j)[k] = IF IsParent(H, j, k) THEN <<H[k].of>> ELSE <<>>
    BY <1>1 DEF Reads
  <2>4. 1 \in 1..n + 1
    BY <1>1
  <2> QED
    BY <1>1, <1>5, <2>1, <2>2, <2>3, <2>4
<1>8. ASSUME NEW j \in 1..n + 1, NEW q \in Seq(T), Len(q) = n,
             \A k \in 1..n : q[k] = IF IsParent(H, j, k + 1) THEN <<F[k].of>> ELSE <<>>
      PROVE  ChildrenRead(H, j) = FlattenSeq(q)
  <2> DEFINE r == Reads(H, j)
  <2>1. r = [k \in 1..Len(none) + Len(q) |-> r[k]]
    <3>1. 1 + n = n + 1
      BY <1>1
    <3> QED
      BY <1>6, <1>7, <1>8, <3>1
  <2>2. \A k \in 1..Len(none) : r[k] = none[k]
    BY <1>6, <1>7
  <2>3. \A k \in 1..Len(q) : r[Len(none) + k] = q[k]
    <3>1. \A k \in 1..n : 1 + k = k + 1
      BY <1>1
    <3>2. \A k \in 1..n : r[k + 1] = q[k]
      BY <1>7, <1>8
    <3> HIDE DEF r, none
    <3> QED
      BY <1>6, <1>8, <3>1, <3>2
  <2> HIDE DEF r, none
  <2>4. FlattenSeq(r) = FlattenSeq(none) \o FlattenSeq(q)
    BY <1>6, <2>1, <2>2, <2>3, FlattenParts
  <2>5. <<>> \o FlattenSeq(q) = FlattenSeq(q)
    BY FlattenType, ConcatEmptySeq
  <2> QED
    BY <1>6, <1>7, <2>4, <2>5 DEF r
<1>9. ChildrenRead(H, 1) = Built(t, x.of)
  <2> DEFINE f == TopOf(t, d + 1)
             q == [k \in DOMAIN F |-> f[F[k]]]
  <2>1. q \in Seq(T) /\ FlattenSeq(q) = Built(t, x.of)
    <3>1. f \in [L -> Seq(0..t.n)]
      BY TopsType
    <3>2. FlattenSeq(q) = Each(F, f)
      BY DEF Each
    <3> HIDE DEF f
    <3>3. [k \in DOMAIN F |-> f[F[k]]] \in Seq(Seq(0..t.n))
      BY <3>1, EachParts
    <3> QED
      BY <3>2, <3>3 DEF f
  <2>2. Len(q) = n
    BY <1>1
  <2>3. \A k \in 1..n : q[k] = IF IsParent(H, 1, k + 1) THEN <<F[k].of>> ELSE <<>>
    BY <1>1, <1>2, <1>3 DEF TopOf
  <2>4. 1 \in 1..n + 1
    BY <1>1
  <2> HIDE DEF q, T
  <2> QED
    BY <1>8, <2>1, <2>2, <2>3, <2>4
<1>10. ASSUME NEW j \in 1..n PROVE ChildrenRead(H, j + 1) = ChildrenRead(F, j)
  <2> DEFINE q == Reads(F, j)
  <2>1. q \in Seq(T) /\ FlattenSeq(q) = ChildrenRead(F, j) /\ Len(q) = n
    BY ReadsType DEF n
  <2>2. \A k \in 1..n : q[k] = IF IsParent(H, j + 1, k + 1) THEN <<F[k].of>> ELSE <<>>
    BY <1>1, <1>4, ReadsType
  <2>3. j + 1 \in 1..n + 1
    BY <1>1
  <2> HIDE DEF q, T
  <2> QED
    BY <1>8, <2>1, <2>2, <2>3
<1>11. ASSUME NEW k \in 1..n + 1
       PROVE  /\ Len(H[k].columns) >= d
              /\ Len(H[k].columns) = d \/ \E h \in 1..n + 1 : IsParent(H, h, k)
              /\ ChildrenRead(H, k) = Built(t, H[k].of)
  <2>1. CASE k = 1
    BY <1>1, <1>9, <2>1
  <2>2. CASE k # 1
    <3> DEFINE i == k - 1
    <3>1. i \in 1..n /\ k = i + 1
      BY <1>1, <2>2
    <3> HIDE DEF i
    <3>2. H[k] = F[i] /\ ChildrenRead(H, k) = Built(t, F[i].of)
      BY <1>1, <1>2, <1>10, <3>1
    <3>3. Len(F[i].columns) >= d
      BY <1>2, <3>1
    <3>4. \E h \in 1..n + 1 : IsParent(H, h, k)
      <4>1. CASE Len(F[i].columns) = d + 1
        <5>1. IsParent(H, 1, k) /\ 1 \in 1..n + 1
          BY <1>1, <1>3, <3>1, <4>1
        <5> QED
          BY <5>1
      <4>2. CASE Len(F[i].columns) # d + 1
        <5>1. PICK h \in 1..n : IsParent(F, h, i)
          BY <1>2, <3>1, <4>2
        <5>2. IsParent(H, h + 1, k) /\ h + 1 \in 1..n + 1
          BY <1>1, <1>4, <3>1, <5>1
        <5> QED
          BY <5>2
      <4> QED
        BY <4>1, <4>2
    <3> QED
      BY <3>2, <3>3, <3>4
  <2> QED
    BY <2>1, <2>2
<1>12. Forest(t, H, d)
  BY <1>1, <1>11 DEF Forest
<1>13. Each(H, TopOf(t, d)) = <<x.of>>
  <2> DEFINE f == TopOf(t, d)
             q == [k \in DOMAIN F |-> f[F[k]]]
  <2>1. f \in [L -> T] /\ f[x] = <<x.of>> /\ \A k \in 1..n : f[F[k]] = <<>>
    <3>1. f \in [L -> T]
      BY TopsType
    <3>2. f[x] = <<x.of>>
      BY DEF TopOf
    <3>3. ASSUME NEW k \in 1..n PROVE f[F[k]] = <<>>
      <4>1. F[k] \in L /\ Len(F[k].columns) # d
        BY <1>2
      <4> QED
        BY <4>1 DEF TopOf
    <3> QED
      BY <3>1, <3>2, <3>3
  <2>2. q \in Seq(T) /\ FlattenSeq(q) = Each(F, f)
    <3>1. f \in [L -> Seq(0..t.n)]
      BY TopsType
    <3>2. FlattenSeq(q) = Each(F, f)
      BY DEF Each
    <3> HIDE DEF f
    <3>3. [k \in DOMAIN F |-> f[F[k]]] \in Seq(Seq(0..t.n))
      BY <3>1, EachParts
    <3> QED
      BY <3>2, <3>3
  <2>3. \A k \in DOMAIN q : q[k] = <<>>
    BY <1>1, <2>1
  <2>4. FlattenSeq(q) = <<>>
    <3> HIDE DEF q
    <3> QED
      BY <2>2, <2>3, FlattenNothing
  <2>5. Each(H, f) = Each(<<x>>, f) \o Each(F, f)
    <3> HIDE DEF f, q
    <3>1. <<x>> \in Seq(L) /\ F \in Seq(L)
      BY <1>1
    <3> HIDE DEF L
    <3> QED
      BY <2>1, <3>1, EachConcat DEF H
  <2>6. <<x.of>> \o <<>> = <<x.of>>
    BY OneOrTwo
  <2> HIDE DEF f, q
  <2>7. Each(H, f) = <<x.of>>
    BY <2>1, <2>2, <2>4, <2>5, <2>6, EachOne
  <2> QED
    BY <2>7 DEF f
<1> QED
  BY <1>12, <1>13 DEF H

(* The lines about nodes, line by line. *)
Keep(t) == [x \in LinesOf(t) |-> IF x.of = Nil THEN <<>> ELSE <<x>>]

(* NodeLines is that. *)
LEMMA NodeLinesIsEach ==
  ASSUME NEW t, NEW lines \in Seq(LinesOf(t))
  PROVE  /\ Keep(t) \in [LinesOf(t) -> Seq(LinesOf(t))]
         /\ NodeLines(lines) = Each(lines, Keep(t))
<1>1. /\ Len(lines) \in Nat /\ DOMAIN lines = 1..Len(lines)
      /\ \A k \in DOMAIN lines : lines[k] \in LinesOf(t)
  BY LenProperties, ElementOfSeq
<1>2. ASSUME NEW x \in LinesOf(t) PROVE (IF x.of = Nil THEN <<>> ELSE <<x>>) \in Seq(LinesOf(t))
  <2>1. CASE x.of = Nil
    BY <2>1
  <2>2. CASE x.of # Nil
    BY <2>2
  <2> QED
    BY <2>1, <2>2
<1>3. Keep(t) \in [LinesOf(t) -> Seq(LinesOf(t))]
  BY <1>2 DEF Keep
<1>4. \A k \in DOMAIN lines : Keep(t)[lines[k]] = IF lines[k].of = Nil THEN <<>> ELSE <<lines[k]>>
  BY <1>1 DEF Keep
<1>5. NodeLines(lines) = Each(lines, Keep(t))
  BY <1>4 DEF NodeLines, Each
<1> QED
  BY <1>3, <1>5

(* Of the own lines of a node, the first is kept. *)
LEMMA KeepOwn ==
  ASSUME NEW t, IsTree(t), NEW i \in 1..t.n, NEW at \in Margins
  PROVE  /\ Line(at.lead, i) \in LinesOf(t)
         /\ Each(OwnLines(t, i, at), Keep(t)) = <<Line(at.lead, i)>>
<1> DEFINE a == Line(at.lead, i)
           b == Line(Append(at.prefix, "blank"), Nil)
           f == Keep(t)
           L == LinesOf(t)
<1>1. OwnLines(t, i, at) = <<a>> \o (IF i \in t.multiline THEN <<b>> ELSE <<>>)
  BY DEF OwnLines
<1>2. a \in L /\ b \in L
  <2>1. at.lead \in Seq(Columns) /\ Append(at.prefix, "blank") \in Seq(Columns)
    BY MarginTypes, AppendProperties DEF Columns
  <2>2. i \in 0..t.n /\ Nil \in 0..t.n
    BY DEF IsTree, Nil
  <2> QED
    BY <2>1, <2>2 DEF LinesOf, Line
<1>3. f[a] = <<a>> /\ f[b] = <<>>
  <2>1. a.of = i /\ b.of = Nil /\ i # Nil
    BY DEF Line, Nil
  <2> HIDE DEF a, b
  <2> QED
    BY <1>2, <2>1 DEF Keep
<1>4. f \in [L -> Seq(L)]
  <2>1. <<>> \in Seq(LinesOf(t))
    OBVIOUS
  <2> QED
    BY <2>1, NodeLinesIsEach
<1> HIDE DEF a, b, f, L
<1>5. Each(<<a>> \o <<b>>, f) = f[a] \o f[b]
  <2>1. <<a>> \in Seq(L) /\ <<b>> \in Seq(L)
    BY <1>2
  <2>2. Each(<<a>> \o <<b>>, f) = Each(<<a>>, f) \o Each(<<b>>, f)
    BY <1>4, <2>1, EachConcat
  <2> QED
    BY <2>2, EachOne
<1>6. Each(<<a>> \o <<>>, f) = f[a]
  BY OneOrTwo, EachOne
<1>7. Each(OwnLines(t, i, at), f) = <<a>>
  BY <1>1, <1>3, <1>5, <1>6, OneOrTwo
<1> QED
  BY <1>2, <1>7 DEF f, a, L

(* The lines of the nodes below a node that is drawn d deep. *)
Grown(t, i, at, G) ==
  /\ G \in Seq(LinesOf(t))
  /\ Each(Draw(t)[i][at], Keep(t)) = <<Line(at.lead, i)>> \o G
  /\ Forest(t, G, Len(at.lead) + 1)
  /\ Each(G, TopOf(t, Len(at.lead) + 1)) = Built(t, i)

(* Together with the line of the node they tell its tree. *)
LEMMA GrownForest ==
  ASSUME NEW t, IsTree(t), NEW i \in 1..t.n, NEW at \in Margins, NEW G, Grown(t, i, at, G)
  PROVE  /\ Each(Draw(t)[i][at], Keep(t)) \in Seq(LinesOf(t))
         /\ Forest(t, Each(Draw(t)[i][at], Keep(t)), Len(at.lead))
         /\ Each(Each(Draw(t)[i][at], Keep(t)), TopOf(t, Len(at.lead))) = <<i>>
<1> DEFINE x == Line(at.lead, i)
           d == Len(at.lead)
           H == Each(Draw(t)[i][at], Keep(t))
           L == LinesOf(t)
<1>1. x \in L /\ Len(x.columns) = d /\ x.of = i
  BY KeepOwn DEF Line
<1>2. d \in Nat
  BY MarginTypes, LenProperties
<1>3. G \in Seq(L) /\ H = <<x>> \o G /\ Forest(t, G, d + 1) /\ Each(G, TopOf(t, d + 1)) = Built(t, x.of)
  BY <1>1 DEF Grown
<1> HIDE DEF x, d, H, L
<1>4. H \in Seq(L)
  <2>1. <<x>> \in Seq(L)
    BY <1>1
  <2> QED
    BY <1>3, <2>1, ConcatProperties
<1>5. Forest(t, <<x>> \o G, d) /\ Each(<<x>> \o G, TopOf(t, d)) = <<x.of>>
  BY <1>1, <1>2, <1>3, ForestRoot DEF L
<1>6. Forest(t, H, d) /\ Each(H, TopOf(t, d)) = <<i>>
  BY <1>1, <1>3, <1>5
<1> QED
  BY <1>4, <1>6 DEF H, d, L

(* Wherever a node is drawn, the lines below it tell the trees of its children. *)
LEMMA DrawForest ==
  ASSUME NEW t, IsTree(t)
  PROVE  \A i \in 1..t.n : \A at \in Margins : Len(at.lead) = Len(at.prefix) => \E G : Grown(t, i, at, G)
<1> DEFINE L == LinesOf(t)
           g == Draw(t)
           keep == Keep(t)
           N == 0..t.n
           Good == {i \in 1..t.n : \A at \in Margins :
                      Len(at.lead) = Len(at.prefix) => \E G : Grown(t, i, at, G)}
<1>1. keep \in [L -> Seq(L)] /\ t.n \in Nat
  <2>1. <<>> \in Seq(LinesOf(t))
    OBVIOUS
  <2> QED
    BY <2>1, NodeLinesIsEach DEF IsTree
<1>2. ASSUME NEW i \in 1..t.n, i + 1..t.n \subseteq Good PROVE i \in Good
  <2> SUFFICES ASSUME NEW at \in Margins, Len(at.lead) = Len(at.prefix) PROVE \E G : Grown(t, i, at, G)
    OBVIOUS
  <2> DEFINE own == OwnLines(t, i, at)
             blocks == BlocksBelow(t, g, i, at)
             kids == Built(t, i)
             C(k) == ChildMargin(at, kids, k)
             d == Len(at.lead)
             f == TopOf(t, d + 1)
             parts == [k \in DOMAIN blocks |-> Each(blocks[k], keep)]
             G == FlattenSeq(parts)
  <2>1. own \in Seq(L) /\ blocks \in Seq(Seq(L)) /\ g[i][at] = own \o FlattenSeq(blocks)
    BY MarginTypes, DrawType, DrawAt
  <2>2. /\ DOMAIN blocks = DOMAIN kids
        /\ \A k \in DOMAIN kids : blocks[k] = g[kids[k]][C(k)]
    BY DEF BlocksBelow
  <2>3. /\ Len(kids) \in Nat /\ DOMAIN kids = 1..Len(kids) /\ kids \in Seq(N)
        /\ \A k \in DOMAIN kids : kids[k] \in i + 1..t.n /\ kids[k] \in 1..t.n /\ kids[k] # Nil
    <3>1. /\ Len(kids) \in Nat /\ DOMAIN kids = 1..Len(kids) /\ kids \in Seq(i + 1..t.n)
          /\ \A k \in DOMAIN kids : kids[k] \in i + 1..t.n
      BY BuiltType
    <3>2. i + 1..t.n \subseteq N /\ \A x \in i + 1..t.n : x \in 1..t.n /\ x # Nil
      BY <1>1 DEF Nil
    <3> HIDE DEF kids, N
    <3> QED
      BY <3>1, <3>2, SeqMonotonic
  <2>4. ASSUME NEW k \in DOMAIN kids
        PROVE  /\ C(k) \in Margins /\ Len(C(k).lead) = d + 1 /\ Len(C(k).lead) = Len(C(k).prefix)
    <3>1. C(k) \in Margins /\ at.prefix \in Seq(Columns)
      BY MarginTypes
    <3>2. "bar" \in Columns /\ "tee" \in Columns /\ "corner" \in Columns /\ "blank" \in Columns
      BY DEF Columns
    <3>3. \A x \in Columns : Len(Append(at.prefix, x)) = Len(at.prefix) + 1
      BY <3>1, OneColumnMore
    <3>4. C(k).lead = Append(at.prefix, IF k = Len(kids) THEN "corner" ELSE "tee")
          /\ C(k).prefix = Append(at.prefix, IF k = Len(kids) THEN "blank" ELSE "bar")
      BY DEF ChildMargin, Margin, Below
    <3> HIDE DEF C
    <3> QED
      BY <3>1, <3>2, <3>3, <3>4
  <2>5. ASSUME NEW k \in DOMAIN kids
        PROVE  /\ Each(blocks[k], keep) \in Seq(L) /\ Forest(t, Each(blocks[k], keep), d + 1)
               /\ Each(Each(blocks[k], keep), f) = <<kids[k]>>
    <3> DEFINE j == kids[k]
               c == C(k)
    <3>1. j \in i + 1..t.n /\ j \in 1..t.n /\ c \in Margins /\ Len(c.lead) = d + 1 /\ Len(c.lead) = Len(c.prefix)
          /\ blocks[k] = g[j][c]
      BY <2>2, <2>3, <2>4
    <3> HIDE DEF j, c, blocks
    <3>2. PICK G0 : Grown(t, j, c, G0)
      BY <1>2, <3>1
    <3>3. /\ Each(g[j][c], keep) \in Seq(L) /\ Forest(t, Each(g[j][c], keep), Len(c.lead))
          /\ Each(Each(g[j][c], keep), TopOf(t, Len(c.lead))) = <<j>>
      BY <3>1, <3>2, GrownForest
    <3> QED
      BY <3>1, <3>3 DEF j
  <2>6. d \in Nat
    BY MarginTypes, LenProperties
  <2>7. f \in [L -> Seq(N)]
    BY TopsType
  <2> HIDE DEF own, blocks, kids, C, d, f, g, keep, L, N
  <2>8. parts \in Seq(Seq(L)) /\ Len(parts) = Len(kids) /\ DOMAIN parts = DOMAIN kids
        /\ \A k \in DOMAIN kids : parts[k] = Each(blocks[k], keep)
    BY <2>2, <2>3, <2>5
  <2>9. Each(FlattenSeq(blocks), keep) = G
    <3> DEFINE m == [s \in Seq(L) |-> Each(s, keep)]
    <3>1. Each(FlattenSeq(blocks), keep) = Each(blocks, m)
      BY <1>1, <2>1, EachFlatten
    <3>2. \A k \in DOMAIN blocks : blocks[k] \in Seq(L)
      BY <2>1, LenProperties, ElementOfSeq
    <3>3. \A k \in DOMAIN blocks : m[blocks[k]] = Each(blocks[k], keep)
      BY <3>2
    <3> HIDE DEF m
    <3>4. Each(blocks, m) = G
      BY <3>3 DEF Each
    <3> QED
      BY <3>1, <3>4
  <2> HIDE DEF parts
  <2>10. G \in Seq(L)
    BY <2>8, FlattenType
  <2>11. Each(g[i][at], keep) = <<Line(at.lead, i)>> \o G
    <3>1. Each(own, keep) = <<Line(at.lead, i)>>
      BY KeepOwn DEF own, keep
    <3>2. FlattenSeq(blocks) \in Seq(L)
      BY <2>1, FlattenType
    <3>3. Each(own \o FlattenSeq(blocks), keep) = Each(own, keep) \o Each(FlattenSeq(blocks), keep)
      BY <1>1, <2>1, <3>2, EachConcat
    <3> HIDE DEF G
    <3> QED
      BY <2>1, <2>9, <3>1, <3>3
  <2>12. Forest(t, G, d + 1)
    <3>1. \A k \in DOMAIN parts : Forest(t, parts[k], d + 1)
      BY <2>5, <2>8
    <3>2. d + 1 \in Nat
      BY <2>6
    <3> QED
      BY <2>8, <3>1, <3>2, ForestFlatten DEF L
  <2>13. Each(G, f) = kids
    <3> DEFINE m == [s \in Seq(L) |-> Each(s, f)]
    <3>1. Each(G, f) = Each(parts, m)
      BY <2>7, <2>8, EachFlatten
    <3>2. \A k \in DOMAIN kids : m[parts[k]] = <<kids[k]>>
      <4>1. \A k \in DOMAIN kids : parts[k] \in Seq(L) /\ Each(parts[k], f) = <<kids[k]>>
        BY <2>5, <2>8
      <4> QED
        BY <4>1
    <3>3. \A k \in DOMAIN kids : Node(N)[kids[k]] = <<kids[k]>>
      <4>1. \A k \in DOMAIN kids : kids[k] \in N /\ kids[k] # Nil
        BY <2>3, ElementOfSeq
      <4> QED
        BY <4>1 DEF Node
    <3> HIDE DEF m
    <3>4. Each(parts, m) = Each(kids, Node(N))
      BY <2>8, <3>2, <3>3 DEF Each
    <3>5. ~Contains(kids, Nil)
      BY <2>3 DEF Contains
    <3>6. Each(kids, Node(N)) = kids
      BY <2>3, <3>5, NothingLeftOut
    <3> QED
      BY <3>1, <3>4, <3>6
  <2>14. Grown(t, i, at, G)
    <3> HIDE DEF G
    <3> QED
      BY <2>10, <2>11, <2>12, <2>13 DEF Grown, g, keep, L, d, f, kids
  <2> QED
    BY <2>14
<1> HIDE DEF Good
<1>3. 1..t.n \subseteq Good
  BY <1>1, <1>2, DownInduction
<1> QED
  BY <1>3 DEF Good

(* So the tree is read back from its drawing. *)
LEMMA DrawingReads ==
  ASSUME NEW t, IsTree(t)
  PROVE  ReadBack(t, NodeLines(Draw(t)[Root][Margin(<<>>, <<>>)]))
<1> DEFINE at == Margin(<<>>, <<>>)
           lines == Draw(t)[Root][at]
           F == NodeLines(lines)
           L == LinesOf(t)
           x == Line(<<>>, Root)
<1>1. Root \in 1..t.n /\ at \in Margins /\ at.lead = <<>> /\ at.prefix = <<>> /\ Len(at.lead) = 0
  BY RootIsNode, RootMargin DEF Margin
<1>2. F = Each(lines, Keep(t))
  <2>1. lines \in Seq(L)
    BY <1>1, DrawType
  <2> HIDE DEF lines
  <2> QED
    BY <2>1, NodeLinesIsEach
<1> HIDE DEF at
<1>3. PICK G : Grown(t, Root, at, G)
  BY <1>1, DrawForest
<1>4. F \in Seq(L) /\ Forest(t, F, 0)
  BY <1>1, <1>2, <1>3, GrownForest
<1>5. G \in Seq(L) /\ F = <<x>> \o G /\ Forest(t, G, 1)
  BY <1>1, <1>2, <1>3 DEF Grown
<1> HIDE DEF F, L
<1>6. x \in L /\ x.of = Root
  BY <1>1, KeepOwn DEF L, Line
<1> HIDE DEF x
<1>7. /\ Len(G) \in Nat /\ DOMAIN F = 1..Len(G) + 1 /\ F[1] = x
      /\ \A k \in 2..Len(G) + 1 : F[k] = G[k - 1] /\ k - 1 \in DOMAIN G
  <2>1. <<x>> \in Seq(L) /\ Len(<<x>>) = 1 /\ <<x>>[1] = x
    BY <1>6
  <2>2. /\ Len(G) \in Nat /\ Len(F) = 1 + Len(G) /\ DOMAIN F = 1..Len(F) /\ DOMAIN G = 1..Len(G)
        /\ \A k \in 1..1 + Len(G) : F[k] = IF k <= 1 THEN <<x>>[k] ELSE G[k - 1]
    BY <1>4, <1>5, <2>1, LenProperties, ConcatProperties
  <2>3. F[1] = x
    BY <2>1, <2>2
  <2>4. ASSUME NEW k \in 2..Len(G) + 1 PROVE F[k] = G[k - 1] /\ k - 1 \in DOMAIN G
    <3>1. k \in 1..1 + Len(G) /\ ~(k <= 1) /\ k - 1 \in 1..Len(G)
      BY <2>2
    <3> QED
      BY <2>2, <3>1
  <2> QED
    BY <2>2, <2>3, <2>4
<1>8. ASSUME NEW j \in DOMAIN F
      PROVE  /\ ChildrenRead(F, j) = Built(t, F[j].of)
             /\ IF j = 1 THEN F[j].of = Root ELSE \E h \in DOMAIN F : IsParent(F, h, j)
  <2>1. ChildrenRead(F, j) = Built(t, F[j].of)
    BY <1>4 DEF Forest
  <2>2. CASE j = 1
    BY <1>6, <1>7, <2>1, <2>2
  <2>3. CASE j # 1
    <3>1. F[j] = G[j - 1] /\ j - 1 \in DOMAIN G
      BY <1>7, <2>3
    <3>2. Len(G[j - 1].columns) >= 1
      BY <1>5, <3>1 DEF Forest
    <3>3. \E h \in DOMAIN F : IsParent(F, h, j)
      BY <1>4, <3>1, <3>2 DEF Forest
    <3> QED
      BY <2>1, <2>3, <3>3
  <2> QED
    BY <2>2, <2>3
<1>9. ReadBack(t, F)
  BY <1>8 DEF ReadBack
<1> QED
  BY <1>9 DEF F, at

(* The drawing tells the tree, for every tree: with nodes that occur more than once,
   nil nodes that are left out and values of two lines, the parents read off the
   indentation give every node its children in order, and every connector goes on
   in the line below or ends (printer.go:145-153, 238-288). *)
THEOREM DrawingCorrect == InspectSpec => []DrawingTellsTree
<1>1. InspectInv => DrawingTellsTree
  <2> SUFFICES ASSUME InspectInv PROVE DrawingTellsTree
    OBVIOUS
  <2>1. IsTree(tree)
    BY DEF InspectInv, WalkInv
  <2>2. CASE output = <<>>
    <3>1. [l \in DOMAIN <<>> |-> IF <<>>[l].of = Nil THEN <<>> ELSE <<<<>>[l]>>] = <<>>
      OBVIOUS
    <3>2. NodeLines(output) = <<>>
      BY <2>2, <3>1, FlattenEmpty DEF NodeLines
    <3> QED
      BY <2>2, <3>2 DEF DrawingTellsTree, ReadBack, ConnectorsMeet
  <2>3. CASE output # <<>>
    BY <2>1, <2>3, DrawingReads, DrawingMeets DEF InspectInv, OutputInv, DrawingTellsTree
  <2> QED
    BY <2>2, <2>3
<1> QED
  BY <1>1, InspectInvariant, PTL
=============================================================================
