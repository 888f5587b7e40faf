---------------------------- MODULE WrapperProofs ----------------------------
(***************************************************************************)
(* Proofs about the nodes and ticks that are made from others: any number  *)
(* of goroutines ticking nodes wrapped by Sync leave at most as many nodes *)
(* running as there are goroutines; and Background keeps its list in the   *)
(* order of age, leaves nobody out for ever, and is kept short by          *)
(* RateLimit, for any number of nodes and any durations.                   *)
(***************************************************************************)
EXTENDS Sync, Jobs, SequenceTheorems, FiniteSetTheorems, TLAPS

-----------------------------------------------------------------------------
(* Sync *)

(* Every step keeps the types. *)
LEMMA SyncTypes == TypeOK /\ [Next]_vars => TypeOK'
<1> SUFFICES ASSUME TypeOK, [Next]_vars PROVE TypeOK'
  OBVIOUS
<1> USE DEF TypeOK, Goto
<1>1. ASSUME NEW w \in Workers, NEW c \in Nodes, Call(w, c) PROVE TypeOK'
  BY <1>1 DEF Call
<1>2. ASSUME NEW w \in Workers, Expand(w) PROVE TypeOK'
  BY <1>2 DEF Expand
<1>3. ASSUME NEW w \in Workers, ExpandNil(w) \/ Disabled(w) \/ Drop(w) PROVE TypeOK'
  BY <1>3 DEF ExpandNil, Disabled, Drop
<1>4. ASSUME NEW w \in Workers, Enter(w) PROVE TypeOK'
  BY <1>4 DEF Enter
<1>5. ASSUME NEW w \in Workers, NEW status \in Statuses, Leave(w, status) PROVE TypeOK'
  BY <1>5 DEF Leave
<1>6. CASE UNCHANGED vars
  BY <1>6 DEF vars
<1> QED
  BY <1>1, <1>2, <1>3, <1>4, <1>5, <1>6 DEF Next, Step

(* The nodes of the goroutines are finitely many, and not more than these. *)
LEMMA NodesOfWorkers ==
  ASSUME NEW f \in [Workers -> Nodes], NEW S \in SUBSET {f[w] : w \in Workers}
  PROVE  Cardinality(S) <= Cardinality(Workers)
<1> DEFINE T == {f[w] : w \in Workers}
<1>1. f \in Surjection(Workers, T)
  BY DEF Surjection
<1>2. IsFiniteSet(T) /\ Cardinality(T) <= Cardinality(Workers)
  BY <1>1, SyncAssumption, FS_Surjection
<1>3. IsFiniteSet(S) /\ Cardinality(S) <= Cardinality(T)
  BY <1>2, FS_Subset
<1> QED
  BY <1>2, <1>3, SyncAssumption, FS_CardinalityType

(* A step that adds no candidate keeps the bound. *)
LEMMA FewerCandidates ==
  ASSUME BoundInv, Candidates' \subseteq Candidates
  PROVE  Cardinality(Candidates') <= Cardinality(Workers)
<1>1. Candidates \subseteq Nodes
  BY DEF BoundInv, TypeOK, Candidates, Running
<1>2. IsFiniteSet(Candidates)
  BY <1>1, SyncAssumption, FS_Subset
<1>3. IsFiniteSet(Candidates') /\ Cardinality(Candidates') <= Cardinality(Candidates)
  BY <1>2, FS_Subset
<1> QED
  BY <1>2, <1>3, SyncAssumption, FS_CardinalityType DEF BoundInv

(* A goroutine adds a candidate only when no node is running
   (sync.go:68); every other step keeps or drops one. *)
LEMMA SyncStep == BoundInv /\ [Next]_vars => BoundInv'
<1> SUFFICES ASSUME BoundInv, [Next]_vars
             PROVE  Cardinality(Candidates') <= Cardinality(Workers)
  BY SyncTypes DEF BoundInv
<1> USE DEF BoundInv, TypeOK, Goto
<1>1. ASSUME NEW w \in Workers, NEW c \in Nodes, Call(w, c)
      PROVE  Candidates' \subseteq Candidates
  BY <1>1 DEF Call, Candidates, Running
<1>2. ASSUME NEW w \in Workers, Expand(w)
      PROVE  Cardinality(Candidates') <= Cardinality(Workers)
  <2>1. Running' = Running
    BY <1>2 DEF Expand, Running
  <2>2. CASE Running = {}
    <3>1. node' \in [Workers -> Nodes]
      BY <1>2 DEF Expand
    <3>2. Candidates' \subseteq {node'[v] : v \in Workers}
      BY <2>1, <2>2 DEF Candidates
    <3> QED
      BY <3>1, <3>2, NodesOfWorkers
  <2>3. CASE Running # {}
    <3>1. pc'[w] = "tick" => node[w] \in Running
      BY <1>2, <2>3 DEF Expand, Running
    <3>2. Candidates' \subseteq Candidates
      BY <1>2, <2>1, <3>1 DEF Expand, Candidates
    <3> QED
      BY <3>2, FewerCandidates
  <2> QED
    BY <2>2, <2>3
<1>3. ASSUME NEW w \in Workers, ExpandNil(w) \/ Disabled(w) \/ Drop(w)
      PROVE  Candidates' \subseteq Candidates
  BY <1>3 DEF ExpandNil, Disabled, Drop, Candidates, Running
<1>4. ASSUME NEW w \in Workers, Enter(w) PROVE Candidates' \subseteq Candidates
  BY <1>4 DEF Enter, Candidates, Running
<1>5. ASSUME NEW w \in Workers, NEW status \in Statuses, Leave(w, status)
      PROVE  Candidates' \subseteq Candidates
  <2>1. node[w] \in Candidates
    BY <1>5 DEF Leave, Candidates
  <2>2. Running' \subseteq Running \cup {node[w]}
    BY <1>5 DEF Leave, Running
  <2> QED
    BY <1>5, <2>1, <2>2 DEF Leave, Candidates
<1>6. ASSUME UNCHANGED vars PROVE Candidates' \subseteq Candidates
  BY <1>6 DEF vars, Candidates, Running
<1> QED
  BY <1>1, <1>2, <1>3, <1>4, <1>5, <1>6, FewerCandidates DEF Next, Step

(* At the start no node is running, and none may be. *)
LEMMA InitSync == Init => BoundInv
<1> SUFFICES ASSUME Init PROVE BoundInv
  OBVIOUS
<1>1. TypeOK
  BY DEF Init, TypeOK, Statuses
<1>2. Candidates = {}
  BY DEF Init, Candidates, Running
<1>3. Cardinality(Candidates) <= Cardinality(Workers)
  BY <1>2, SyncAssumption, FS_EmptySet, FS_CardinalityType
<1> QED
  BY <1>1, <1>3 DEF BoundInv

(* BoundInv holds whatever the goroutines do. *)
THEOREM SyncInvariance == Spec => []BoundInv
  BY InitSync, SyncStep, PTL DEF Spec

(* For k goroutines at most k nodes are running; for one, at most one, which
   is what the comment of Sync says (sync.go:21-22). *)
THEOREM RunningTheorem == Spec => []RunningBounded
<1>1. BoundInv => RunningBounded
  <2> SUFFICES ASSUME BoundInv PROVE Cardinality(Running) <= Cardinality(Workers)
    BY DEF RunningBounded
  <2>1. Running \subseteq Candidates /\ Candidates \subseteq Nodes
    BY DEF BoundInv, TypeOK, Candidates, Running
  <2>2. IsFiniteSet(Candidates)
    BY <2>1, SyncAssumption, FS_Subset
  <2>3. IsFiniteSet(Running) /\ Cardinality(Running) <= Cardinality(Candidates)
    BY <2>1, <2>2, FS_Subset
  <2> QED
    BY <2>2, <2>3, SyncAssumption, FS_CardinalityType DEF BoundInv
<1> QED
  BY <1>1, SyncInvariance, PTL

-----------------------------------------------------------------------------
(* Background and RateLimit *)

(* The copy and the cut of background.go:38-40 close the gap and keep the order. *)
LEMMA WithoutShifts ==
  ASSUME NEW i \in DOMAIN nodes, nodes \in Seq(Names)
  PROVE  /\ Without(i) \in Seq(Names)
         /\ Len(Without(i)) = Len(nodes) - 1
         /\ \A j \in 1..Len(nodes) - 1 : Without(i)[j] = nodes[IF j < i THEN j ELSE j + 1]
<1> DEFINE front == SubSeq(nodes, 1, i - 1)
           back == SubSeq(nodes, i + 1, Len(nodes))
<1>1. /\ Len(nodes) \in Nat /\ i \in 1..Len(nodes)
      /\ \A j \in 1..Len(nodes) : nodes[j] \in Names
  BY LenProperties
<1>2. /\ front \in Seq(Names) /\ Len(front) = i - 1
      /\ \A j \in 1..i - 1 : front[j] = nodes[j]
  BY <1>1, SubSeqProperties
<1>3. /\ back \in Seq(Names) /\ Len(back) = Len(nodes) - i
      /\ \A j \in 1..Len(nodes) - i : back[j] = nodes[i + j]
  BY <1>1, SubSeqProperties
<1>4. Without(i) = front \o back
  BY DEF Without, RemoveAt
<1> HIDE DEF front, back
<1>5. /\ front \o back \in Seq(Names)
      /\ Len(front \o back) = Len(front) + Len(back)
      /\ \A j \in 1..Len(front) + Len(back) :
           (front \o back)[j] = IF j <= Len(front) THEN front[j] ELSE back[j - Len(front)]
  BY <1>2, <1>3, ConcatProperties
<1>6. ASSUME NEW j \in 1..Len(nodes) - 1
      PROVE  Without(i)[j] = nodes[IF j < i THEN j ELSE j + 1]
  <2>1. j \in 1..Len(front) + Len(back)
    BY <1>1, <1>2, <1>3
  <2>2. CASE j < i
    <3>1. j <= Len(front) /\ j \in 1..i - 1
      BY <1>1, <1>2, <2>2
    <3> QED
      BY <1>2, <1>4, <1>5, <2>1, <2>2, <3>1
  <2>3. CASE j >= i
    <3>1. ~(j <= Len(front)) /\ j - Len(front) \in 1..Len(nodes) - i
          /\ i + (j - Len(front)) = j + 1
      BY <1>1, <1>2, <2>3
    <3>2. Without(i)[j] = back[j - Len(front)]
      BY <1>4, <1>5, <2>1, <3>1
    <3>3. back[j - Len(front)] = nodes[j + 1]
      BY <1>3, <3>1
    <3>4. ~(j < i)
      BY <1>1, <2>3
    <3> QED
      BY <3>2, <3>3, <3>4
  <2> QED
    BY <1>1, <2>2, <2>3
<1>7. Without(i) \in Seq(Names) /\ Len(Without(i)) = Len(front) + Len(back)
  BY <1>4, <1>5
<1>8. Len(Without(i)) = Len(nodes) - 1
  BY <1>1, <1>2, <1>3, <1>7
<1> QED
  BY <1>6, <1>7, <1>8

(* A node of the list has fewer before it than there are names to spare. *)
LEMMA FewBefore ==
  ASSUME NEW A \in SUBSET Names, A # Names, NEW b \in A, NEW T \in SUBSET (A \ {b})
  PROVE  Cardinality(T) \in Nat /\ Cardinality(T) < Cardinality(Names) - 1
<1>1. PICK x \in Names : x \notin A
  OBVIOUS
<1> DEFINE others == Names \ {x}
<1>2. /\ IsFiniteSet(others)
      /\ Cardinality(others) = Cardinality(Names) - 1
  BY <1>1, BackgroundAssumption, FS_RemoveElement
<1>3. b \in others
  BY <1>1
<1> HIDE DEF others
<1>4. /\ IsFiniteSet(others \ {b})
      /\ Cardinality(others \ {b}) = Cardinality(others) - 1
  BY <1>2, <1>3, FS_RemoveElement
<1>5. T \subseteq others \ {b}
  BY <1>1 DEF others
<1>6. IsFiniteSet(T) /\ Cardinality(T) <= Cardinality(others \ {b})
  BY <1>4, <1>5, FS_Subset
<1>7. Cardinality(Names) \in Nat /\ Cardinality(T) \in Nat
  BY <1>6, BackgroundAssumption, FS_CardinalityType
<1>8. Cardinality(others \ {b}) \in Nat
  BY <1>4, FS_CardinalityType
<1> QED
  BY <1>2, <1>4, <1>6, <1>7, <1>8

(* The list, and what its order says of the history. *)
LEMMA NodesType ==
  ASSUME BackgroundInv
  PROVE  /\ Len(nodes) \in Nat
         /\ DOMAIN nodes = 1..Len(nodes)
         /\ \A i \in 1..Len(nodes) : nodes[i] \in alive
         /\ \A b \in alive : \E i \in 1..Len(nodes) : nodes[i] = b
         /\ \A i, j \in 1..Len(nodes) : nodes[i] = nodes[j] => i = j
         /\ \A i, j \in 1..Len(nodes) : <<nodes[i], nodes[j]>> \in older <=> i < j
<1>1. Len(nodes) \in Nat /\ DOMAIN nodes = 1..Len(nodes)
  BY LenProperties DEF BackgroundInv, BackgroundTypeOK
<1> QED
  BY <1>1 DEF BackgroundInv, ListIsAlive, AgeInv, ToSet, IsInjective

(* A pair of nodes is found in the list, in its order. *)
LEMMA OlderPair ==
  ASSUME BackgroundInv, NEW pair \in older
  PROVE  \E i, j \in 1..Len(nodes) : pair[1] = nodes[i] /\ pair[2] = nodes[j] /\ i < j
<1>1. pair \in alive \X alive
  BY DEF BackgroundInv, AgeInv
<1>2. pair = <<pair[1], pair[2]>> /\ pair[1] \in alive /\ pair[2] \in alive
  BY <1>1
<1>3. PICK i \in 1..Len(nodes), j \in 1..Len(nodes) : nodes[i] = pair[1] /\ nodes[j] = pair[2]
  BY <1>2, NodesType
<1>4. <<nodes[i], nodes[j]>> \in older
  BY <1>2, <1>3
<1>5. i < j
  BY <1>4, NodesType
<1> QED
  BY <1>3, <1>5

(* An empty list satisfies all of it. *)
LEMMA InitBackground == BackgroundInit => BackgroundInv
<1> SUFFICES ASSUME BackgroundInit PROVE BackgroundInv
  OBVIOUS
<1>1. nodes = <<>> /\ nodes \in Seq(Names) /\ Len(nodes) = 0 /\ DOMAIN nodes = {}
  BY EmptySeq DEF BackgroundInit
<1> QED
  BY <1>1, BackgroundAssumption DEF BackgroundInit, BackgroundInv, BackgroundTypeOK,
    ListIsAlive, OldestFirst, AgeInv, NoStarvation, ToSet, IsInjective

(* Nothing but pos, result and ticked changes, and between ticks nothing is
   known about ticked but the order. *)
LEMMA BeginStep == BackgroundInv /\ Begin => BackgroundInv'
<1> SUFFICES ASSUME BackgroundInv, Begin PROVE BackgroundInv'
  OBVIOUS
<1>1. /\ ListIsAlive' /\ NoStarvation' /\ OldestFirst'
  BY DEF Begin, BackgroundInv, ListIsAlive, NoStarvation, OldestFirst, Before
<1>2. AgeInv' /\ BackgroundTypeOK'
  BY NodesType DEF Begin, BackgroundInv, AgeInv, BackgroundTypeOK
<1> QED
  BY <1>1, <1>2 DEF BackgroundInv

(* A node that goes on running has been ticked after all that are older. *)
LEMMA RunningStep == BackgroundInv /\ TickRunning => BackgroundInv'
<1> SUFFICES ASSUME BackgroundInv, TickRunning PROVE BackgroundInv'
  OBVIOUS
<1> USE NodesType
<1>1. /\ ListIsAlive' /\ NoStarvation'
  BY DEF TickRunning, BackgroundInv, ListIsAlive, NoStarvation, Before
<1>2. ticked' = {nodes[i] : i \in 1..pos' - 1}
  BY DEF TickRunning, BackgroundInv, AgeInv, BackgroundTypeOK
<1>3. OldestFirst'
  <2> SUFFICES ASSUME NEW pair \in older, pair[2] \in ticked' PROVE pair[1] \in ticked'
    BY DEF OldestFirst, TickRunning
  <2>1. PICK i \in 1..Len(nodes), j \in 1..Len(nodes) :
         pair[1] = nodes[i] /\ pair[2] = nodes[j] /\ i < j
    BY OlderPair
  <2>2. j \in 1..pos' - 1
    <3>1. pos \in 1..Len(nodes) /\ pos' = pos + 1
      BY DEF TickRunning
    <3>2. PICK k \in 1..pos' - 1 : pair[2] = nodes[k]
      BY <1>2
    <3>3. k \in 1..Len(nodes)
      BY <3>1, <3>2
    <3> QED
      BY <2>1, <3>2, <3>3
  <2>3. i \in 1..pos' - 1
    BY <2>1, <2>2, NodesType DEF TickRunning
  <2> QED
    BY <1>2, <2>1, <2>3
<1>4. BackgroundTypeOK'
  BY <1>2 DEF TickRunning, BackgroundInv, BackgroundTypeOK
<1>5. AgeInv'
  BY <1>2 DEF TickRunning, BackgroundInv, AgeInv
<1> QED
  BY <1>1, <1>3, <1>4, <1>5 DEF BackgroundInv

(* A node that is not running is removed and the newer ones left out: each has
   one node less before it. *)
LEMMA EndsStep ==
  ASSUME BackgroundInv, NEW answer \in Answers, TickEnds(answer)
  PROVE  BackgroundInv'
<1> DEFINE At(j) == IF j < pos THEN j ELSE j + 1
           ended == nodes[pos]
<1> USE NodesType
<1>1. /\ pos \in 1..Len(nodes)
      /\ nodes' \in Seq(Names)
      /\ Len(nodes') = Len(nodes) - 1
      /\ DOMAIN nodes' = 1..Len(nodes) - 1
      /\ \A j \in 1..Len(nodes) - 1 : nodes'[j] = nodes[At(j)] /\ At(j) \in 1..Len(nodes) \ {pos}
  <2>1. pos \in DOMAIN nodes /\ nodes' = Without(pos) /\ nodes \in Seq(Names)
    BY DEF TickEnds, BackgroundInv, BackgroundTypeOK
  <2>2. /\ nodes' \in Seq(Names)
        /\ Len(nodes') = Len(nodes) - 1
        /\ \A j \in 1..Len(nodes) - 1 : nodes'[j] = nodes[At(j)]
    BY <2>1, WithoutShifts
  <2>3. DOMAIN nodes' = 1..Len(nodes')
    BY <2>2, LenProperties
  <2>4. pos \in 1..Len(nodes)
    BY <2>1
  <2>5. \A j \in 1..Len(nodes) - 1 : At(j) \in 1..Len(nodes) \ {pos}
    BY <2>4
  <2> QED
    BY <2>2, <2>3, <2>4, <2>5
<1>2. alive' = alive \ {ended} /\ pos' = 0
  BY DEF TickEnds, Return
<1>3. ticked' = {nodes[i] : i \in 1..pos}
  <2>1. ticked = {nodes[i] : i \in 1..pos - 1}
    BY <1>1 DEF BackgroundInv, AgeInv
  <2>2. ticked' = ticked \cup {nodes[pos]}
    BY DEF TickEnds
  <2>3. 1..pos = (1..pos - 1) \cup {pos}
    BY <1>1
  <2> QED
    BY <2>1, <2>2, <2>3
<1>4. older' = older \cap (alive' \X alive')
  BY DEF TickEnds
<1>5. ListIsAlive'
  <2>1. IsInjective(nodes')
    BY <1>1 DEF IsInjective
  <2>2. \A b \in alive' : \E j \in 1..Len(nodes) - 1 : nodes'[j] = b
    <3> TAKE b \in alive'
    <3>1. PICK i \in 1..Len(nodes) : nodes[i] = b /\ i # pos
      BY <1>2
    <3>2. CASE i < pos
      <4>1. i \in 1..Len(nodes) - 1 /\ At(i) = i
        BY <1>1, <3>2
      <4> QED
        BY <1>1, <3>1, <4>1
    <3>3. CASE i > pos
      <4>1. i - 1 \in 1..Len(nodes) - 1 /\ At(i - 1) = i
        BY <1>1, <3>3
      <4> QED
        BY <1>1, <3>1, <4>1
    <3> QED
      BY <1>1, <3>1, <3>2, <3>3
  <2>3. \A j \in 1..Len(nodes) - 1 : nodes'[j] \in alive'
    BY <1>1, <1>2
  <2>4. ToSet(nodes') = {nodes'[j] : j \in 1..Len(nodes) - 1}
    BY <1>1 DEF ToSet
  <2>5. ToSet(nodes') = alive'
    BY <2>2, <2>3, <2>4
  <2> QED
    BY <2>1, <2>5 DEF ListIsAlive
<1>6. AgeInv'
  <2>1. \A i, j \in 1..Len(nodes) - 1 : <<nodes'[i], nodes'[j]>> \in older' <=> i < j
    <3> TAKE i, j \in 1..Len(nodes) - 1
    <3>1. nodes'[i] \in alive' /\ nodes'[j] \in alive'
      BY <1>1, <1>2
    <3>2. <<nodes[At(i)], nodes[At(j)]>> \in older <=> At(i) < At(j)
      BY <1>1 DEF BackgroundInv, AgeInv
    <3>3. At(i) < At(j) <=> i < j
      BY <1>1
    <3> HIDE DEF At
    <3> QED
      BY <1>1, <1>4, <3>1, <3>2, <3>3
  <2>2. alive' # Names
    BY <1>1, <1>2 DEF BackgroundInv, BackgroundTypeOK
  <2> QED
    BY <1>1, <1>2, <1>4, <2>1, <2>2 DEF AgeInv
<1>7. OldestFirst'
  <2> SUFFICES ASSUME NEW pair \in older, pair[2] \in ticked' PROVE pair[1] \in ticked'
    BY <1>4 DEF OldestFirst
  <2>1. PICK i \in 1..Len(nodes), j \in 1..Len(nodes) :
         pair[1] = nodes[i] /\ pair[2] = nodes[j] /\ i < j
    BY OlderPair
  <2>2. j \in 1..pos
    BY <1>1, <1>3, <2>1
  <2> QED
    BY <1>1, <1>3, <2>1, <2>2
<1>8. missed' = [b \in Names |-> IF b \in alive' \ ticked' THEN missed[b] + 1 ELSE 0]
  BY DEF TickEnds, Return
<1>9. BackgroundTypeOK'
  <2>1. missed' \in [Names -> Nat]
    BY <1>8 DEF BackgroundInv, BackgroundTypeOK
  <2> QED
    BY <1>1, <1>2, <1>3, <1>4, <2>1 DEF TickEnds, Return, BackgroundInv, BackgroundTypeOK
<1>10. NoStarvation'
  <2> SUFFICES ASSUME NEW b \in alive'
               PROVE  missed'[b] + Cardinality(Before(b)') < Cardinality(Names) - 1
    BY DEF NoStarvation
  <2>1. b \in Names /\ b \in alive
    BY <1>2 DEF BackgroundInv, BackgroundTypeOK
  <2>2. /\ Before(b)' = Before(b) \ {ended}
        /\ Before(b) \subseteq alive \ {b}
    <3>1. older \subseteq alive \X alive /\ <<b, b>> \notin older
      <4>1. PICK k \in 1..Len(nodes) : nodes[k] = b
        BY <2>1
      <4> QED
        BY <4>1 DEF BackgroundInv, AgeInv
    <3>2. Before(b)' = {a \in alive' : <<a, b>> \in older'}
      BY DEF Before
    <3>3. \A a \in alive' : <<a, b>> \in older' <=> <<a, b>> \in older
      BY <1>4
    <3> QED
      BY <1>2, <3>1, <3>2, <3>3 DEF Before
  <2>3. CASE b \in ticked'
    <3>1. missed'[b] = 0
      BY <1>8, <2>1, <2>3
    <3>2. alive' \in SUBSET Names /\ alive' # Names /\ Before(b)' \in SUBSET (alive' \ {b})
      BY <1>2, <1>6, <1>9, <2>2 DEF BackgroundTypeOK, AgeInv
    <3>3. Cardinality(Before(b)') \in Nat /\ Cardinality(Before(b)') < Cardinality(Names) - 1
      BY <3>2, FewBefore
    <3> QED
      BY <3>1, <3>3
  <2>4. CASE b \notin ticked'
    <3>1. missed'[b] = missed[b] + 1 /\ missed[b] \in Nat
      BY <1>8, <2>1, <2>4 DEF BackgroundInv, BackgroundTypeOK
    <3>2. PICK k \in 1..Len(nodes) : nodes[k] = b
      BY <2>1
    <3>3. pos < k
      BY <1>1, <1>3, <2>4, <3>2
    <3>4. ended \in Before(b)
      BY <1>1, <3>2, <3>3 DEF Before, BackgroundInv, AgeInv
    <3>5. IsFiniteSet(Before(b)) /\ Cardinality(Before(b)) \in Nat
      BY <2>2, BackgroundAssumption, FS_Subset, FS_CardinalityType DEF BackgroundInv, BackgroundTypeOK
    <3>6. Cardinality(Before(b)') = Cardinality(Before(b)) - 1
      <4>1. Cardinality(Before(b) \ {ended}) = Cardinality(Before(b)) - 1
        BY <3>4, <3>5, FS_RemoveElement
      <4> QED
        BY <2>2, <4>1
    <3>7. missed[b] + Cardinality(Before(b)) < Cardinality(Names) - 1
      BY <2>1 DEF BackgroundInv, NoStarvation
    <3>8. Cardinality(Names) \in Nat
      BY BackgroundAssumption, FS_CardinalityType
    <3> QED
      BY <3>1, <3>5, <3>6, <3>7, <3>8
  <2> QED
    BY <2>3, <2>4
<1> QED
  BY <1>5, <1>6, <1>7, <1>9, <1>10 DEF BackgroundInv

(* All nodes are running and have been ticked.  The one that is made is the
   youngest, and has fewer before it than there are names to spare. *)
LEMMA NewStep ==
  ASSUME BackgroundInv, NEW answer \in Answers, NEW b \in Names, TickNew(b, answer)
  PROVE  BackgroundInv'
<1> USE NodesType
<1>1. pos = Len(nodes) + 1 /\ b \notin alive /\ pos' = 0 /\ ticked' = ticked \cup {b}
  BY DEF TickNew, Return
<1>2. ticked = alive
  <2>1. ticked = {nodes[i] : i \in 1..Len(nodes)}
    BY <1>1 DEF BackgroundInv, AgeInv
  <2> QED
    BY <2>1
<1>3. missed' = [c \in Names |-> 0]
  <2>1. alive' \ ticked' = {}
    BY <1>1, <1>2 DEF TickNew
  <2> QED
    BY <2>1 DEF TickNew, Return
<1>4. CASE answer # "running"
  <2>1. nodes' = nodes /\ alive' = alive /\ older' = older
    BY <1>4 DEF TickNew
  <2>2. BackgroundTypeOK' /\ AgeInv' /\ ListIsAlive'
    BY <1>1, <1>2, <1>3, <2>1
    DEF BackgroundInv, BackgroundTypeOK, AgeInv, ListIsAlive, TickNew, Return
  <2>3. OldestFirst'
    BY <1>1, <1>2, <2>1, <2>2 DEF OldestFirst, AgeInv
  <2>4. NoStarvation'
    <3> SUFFICES ASSUME NEW c \in alive
                 PROVE  missed'[c] + Cardinality(Before(c)') < Cardinality(Names) - 1
      BY <2>1 DEF NoStarvation
    <3>1. Before(c)' \in SUBSET (alive \ {c})
      BY <2>1 DEF Before, BackgroundInv, AgeInv
    <3>2. c \in Names /\ alive \in SUBSET Names /\ alive # Names
      BY DEF BackgroundInv, BackgroundTypeOK, AgeInv
    <3>3. Cardinality(Before(c)') \in Nat /\ Cardinality(Before(c)') < Cardinality(Names) - 1
      BY <3>1, <3>2, FewBefore
    <3> QED
      BY <1>3, <3>2, <3>3
  <2> QED
    BY <2>2, <2>3, <2>4 DEF BackgroundInv
<1>5. CASE answer = "running"
  <2>1. /\ nodes' = Append(nodes, b) /\ alive' = alive \cup {b}
        /\ older' = older \cup (alive \X {b}) /\ alive # Names \ {b}
    BY <1>5 DEF TickNew
  <2>2. /\ nodes' \in Seq(Names) /\ Len(nodes') = Len(nodes) + 1
        /\ DOMAIN nodes' = 1..Len(nodes) + 1
        /\ nodes'[Len(nodes) + 1] = b
        /\ \A i \in 1..Len(nodes) : nodes'[i] = nodes[i]
    BY <2>1, AppendProperties, LenProperties DEF BackgroundInv, BackgroundTypeOK
  <2>3. ListIsAlive'
    <3>1. IsInjective(nodes')
      BY <1>1, <2>2 DEF IsInjective
    <3>2. \A c \in alive' : \E i \in 1..Len(nodes) + 1 : nodes'[i] = c
      BY <2>1, <2>2
    <3>3. \A i \in 1..Len(nodes) + 1 : nodes'[i] \in alive'
      BY <2>1, <2>2
    <3>4. ToSet(nodes') = alive'
      BY <2>2, <3>2, <3>3 DEF ToSet
    <3> QED
      BY <3>1, <3>4 DEF ListIsAlive
  <2>4. AgeInv'
    <3>1. \A i, j \in 1..Len(nodes) + 1 : <<nodes'[i], nodes'[j]>> \in older' <=> i < j
      <4> TAKE i, j \in 1..Len(nodes) + 1
      <4>1. CASE j = Len(nodes) + 1
        <5>1. nodes'[j] = b /\ (nodes'[i] \in alive <=> i < j)
          BY <1>1, <2>2, <4>1
        <5>2. \A c : <<c, b>> \in older' <=> c \in alive
          BY <1>1, <2>1 DEF BackgroundInv, AgeInv
        <5> QED
          BY <5>1, <5>2
      <4>2. CASE j # Len(nodes) + 1
        <5>1. j \in 1..Len(nodes) /\ nodes'[j] = nodes[j] /\ nodes[j] # b
          BY <1>1, <2>2, <4>2
        <5>2. <<nodes'[i], nodes[j]>> \in older' <=> <<nodes'[i], nodes[j]>> \in older
          BY <2>1, <5>1
        <5>3. CASE i = Len(nodes) + 1
          <6>1. nodes'[i] = b /\ ~(i < j)
            BY <2>2, <5>1, <5>3
          <6>2. <<b, nodes[j]>> \notin older
            BY <1>1 DEF BackgroundInv, AgeInv
          <6> QED
            BY <5>1, <5>2, <6>1, <6>2
        <5>4. CASE i # Len(nodes) + 1
          <6>1. i \in 1..Len(nodes) /\ nodes'[i] = nodes[i]
            BY <2>2, <5>4
          <6> QED
            BY <5>1, <5>2, <6>1
        <5> QED
          BY <5>3, <5>4
      <4> QED
        BY <4>1, <4>2
    <3>2. older' \subseteq alive' \X alive'
      BY <2>1 DEF BackgroundInv, AgeInv
    <3>3. alive' # Names
      BY <1>1, <2>1
    <3> QED
      BY <1>1, <2>2, <3>1, <3>2, <3>3 DEF AgeInv
  <2>5. OldestFirst'
    BY <1>1, <1>2, <2>1, <2>4 DEF OldestFirst, AgeInv
  <2>6. BackgroundTypeOK'
    BY <1>1, <1>3, <2>1, <2>2 DEF BackgroundInv, BackgroundTypeOK, TickNew, Return
  <2>7. NoStarvation'
    <3> SUFFICES ASSUME NEW c \in alive'
                 PROVE  missed'[c] + Cardinality(Before(c)') < Cardinality(Names) - 1
      BY DEF NoStarvation
    <3>1. PICK k \in 1..Len(nodes) + 1 : nodes'[k] = c
      BY <2>1, <2>2
    <3>2. <<c, c>> \notin older'
      <4>1. <<nodes'[k], nodes'[k]>> \in older' <=> k < k
        BY <2>2, <2>4 DEF AgeInv
      <4> QED
        BY <2>2, <3>1, <4>1
    <3>3. Before(c)' \in SUBSET (alive' \ {c})
      BY <3>2 DEF Before
    <3>4. alive' \in SUBSET Names /\ alive' # Names
      BY <2>4, <2>6 DEF BackgroundTypeOK, AgeInv
    <3>5. Cardinality(Before(c)') \in Nat /\ Cardinality(Before(c)') < Cardinality(Names) - 1
      BY <3>3, <3>4, FewBefore
    <3>6. missed'[c] = 0
      BY <1>3, <3>4
    <3> QED
      BY <3>5, <3>6
  <2> QED
    BY <2>3, <2>4, <2>5, <2>6, <2>7 DEF BackgroundInv
<1> QED
  BY <1>4, <1>5

-----------------------------------------------------------------------------
(* The list of Background changes by Tick alone, and its clauses survive the
   other steps. *)
LEMMA BackgroundStep == BackgroundInv /\ [JobsNext]_jobVars => BackgroundInv'
<1> SUFFICES ASSUME BackgroundInv, [JobsNext]_jobVars PROVE BackgroundInv'
  OBVIOUS
<1>1. CASE Start
  BY <1>1, BeginStep DEF Start
<1>2. CASE Refused
  BY <1>2 DEF Refused, BackgroundInv, BackgroundTypeOK, ListIsAlive, OldestFirst, AgeInv, NoStarvation,
    Before, Answers
<1>3. CASE Tick
  <2>1. CASE TickRunning
    BY <2>1, RunningStep
  <2>2. ASSUME NEW answer \in Answers, TickEnds(answer) PROVE BackgroundInv'
    BY <2>2, EndsStep
  <2>3. ASSUME NEW answer \in Answers, NEW b \in Names, TickNew(b, answer) PROVE BackgroundInv'
    BY <2>3, NewStep
  <2> QED
    BY <1>3, <2>1, <2>2, <2>3 DEF Tick
<1>4. CASE UNCHANGED backgroundVars
  BY <1>4 DEF backgroundVars, BackgroundInv, BackgroundTypeOK, ListIsAlive, OldestFirst, AgeInv, NoStarvation,
    Before
<1> QED
  BY <1>1, <1>2, <1>3, <1>4 DEF JobsNext, jobVars

(* last is the latest success, and the next is a duration later. *)
LEMMA ClockStep == ClockInv /\ [JobsNext]_jobVars => ClockInv'
<1> SUFFICES ASSUME ClockInv, [JobsNext]_jobVars PROVE ClockInv'
  OBVIOUS
<1> USE RateLimitAssumption DEF ClockInv, OncePerDuration, Never
<1>1. CASE LimitSucceeds
  <2>1. /\ d' = d /\ now' = now /\ last' = now /\ successes' = successes \cup {now}
        /\ last # -1 => ~(now - d < last)
    BY <1>1 DEF LimitSucceeds, Allowed
  <2>2. d \in Nat /\ now \in Nat /\ successes' \subseteq 0..now
    BY <2>1
  <2>3. ASSUME NEW s \in successes', NEW t \in successes', s < t PROVE s + d <= t
    BY <2>1, <2>2, <2>3
  <2> QED
    BY <2>1, <2>2, <2>3
<1>2. CASE Advance
  <2>1. now' \in Nat /\ now' >= now
    BY <1>2 DEF Advance
  <2> QED
    BY <1>2, <2>1 DEF Advance
<1>3. CASE UNCHANGED clockVars
  BY <1>3 DEF clockVars
<1> QED
  BY <1>1, <1>2, <1>3 DEF JobsNext, jobVars, Start, Refused, LimitFails

(* A node more in the list means a success more, a duration after the last. *)
LEMMA GrowthStep == JobsInv /\ [JobsNext]_jobVars => Growth'
<1> SUFFICES ASSUME JobsInv, [JobsNext]_jobVars PROVE Growth'
  OBVIOUS
<1>1. /\ d \in Nat /\ now \in Nat /\ Len(nodes) \in Nat /\ pos \in 0..Len(nodes) + 1
      /\ last = Never \/ last \in 0..now
  BY RateLimitAssumption, LenProperties DEF JobsInv, BackgroundInv, ClockInv, BackgroundTypeOK
<1>2. CASE Start
  <2>1. /\ pos = 0 /\ pos' = 1 /\ nodes' = nodes /\ d' = d /\ last' = now
        /\ last # Never => ~(now - d < last)
    BY <1>2 DEF Start, LimitSucceeds, Allowed, Begin
  <2>2. CASE last = Never
    BY <1>1, <2>1, <2>2 DEF JobsInv, Growth, Never
  <2>3. CASE last # Never
    <3>1. (Len(nodes) - 1) * d <= last
      BY <2>1, <2>3 DEF JobsInv, Growth
    <3>2. Len(nodes) * d = (Len(nodes) - 1) * d + d
      BY <1>1
    <3>3. last + d <= now
      BY <1>1, <2>1, <2>3
    <3>4. (Len(nodes) - 1) * d \in Int /\ Len(nodes) * d \in Int
      BY <1>1
    <3>5. Len(nodes) * d <= now
      BY <1>1, <2>3, <3>1, <3>2, <3>3, <3>4
    <3> QED
      BY <1>1, <2>1, <3>5 DEF Growth, Never
  <2> QED
    BY <2>2, <2>3
<1>3. CASE Tick /\ UNCHANGED clockVars
  <2>1. d' = d /\ last' = last /\ pos # 0
    BY <1>3, <1>1 DEF clockVars, Tick, TickRunning, TickEnds, TickNew
  <2>2. last # Never /\ Len(nodes) * d <= last
    BY <1>1, <2>1 DEF JobsInv, Growth
  <2>3. /\ Len(nodes') \in Nat
        /\ \/ pos' # 0 /\ Len(nodes') = Len(nodes)
           \/ pos' = 0 /\ Len(nodes') <= Len(nodes) + 1
    <3>1. CASE TickRunning
      BY <1>1, <3>1 DEF TickRunning
    <3>2. ASSUME NEW answer \in Answers, TickEnds(answer)
          PROVE  pos' = 0 /\ Len(nodes') \in Nat /\ Len(nodes') <= Len(nodes) + 1
      BY <1>1, <3>2, WithoutShifts DEF TickEnds, Return, JobsInv, BackgroundInv, BackgroundTypeOK
    <3>3. ASSUME NEW answer \in Answers, NEW b \in Names, TickNew(b, answer)
          PROVE  pos' = 0 /\ Len(nodes') \in Nat /\ Len(nodes') <= Len(nodes) + 1
      BY <1>1, <3>3, AppendProperties DEF TickNew, Return, JobsInv, BackgroundInv, BackgroundTypeOK
    <3> QED
      BY <1>3, <3>1, <3>2, <3>3 DEF Tick
  <2>4. CASE pos' # 0
    BY <2>1, <2>2, <2>3, <2>4 DEF Growth
  <2>5. CASE pos' = 0
    <3>1. (Len(nodes') - 1) * d <= Len(nodes) * d
      BY <1>1, <2>3, <2>5
    <3>2. (Len(nodes') - 1) * d \in Int /\ Len(nodes) * d \in Int
      BY <1>1, <2>3
    <3>3. (Len(nodes') - 1) * d <= last
      BY <1>1, <2>2, <3>1, <3>2
    <3> QED
      BY <2>1, <2>2, <2>5, <3>3 DEF Growth
  <2> QED
    BY <2>4, <2>5
<1>4. CASE UNCHANGED <<nodes, pos, d, last>>
  BY <1>4 DEF JobsInv, Growth
<1>5. CASE Refused
  BY <1>4, <1>5 DEF Refused, LimitFails, clockVars
<1>6. CASE Advance /\ UNCHANGED backgroundVars
  BY <1>4, <1>6 DEF Advance, backgroundVars
<1>7. CASE UNCHANGED jobVars
  BY <1>4, <1>7 DEF jobVars, backgroundVars, clockVars
<1> QED
  BY <1>2, <1>3, <1>5, <1>6, <1>7 DEF JobsNext

(* Nothing has succeeded, and the list is empty. *)
LEMMA InitJobs == JobsInit => JobsInv
  BY InitBackground, RateLimitAssumption
  DEF JobsInit, ClockInit, JobsInv, ClockInv, OncePerDuration, Growth, Never, BackgroundInit

(* All of it together, for any nodes, durations and interleaving of ticks with
   the clock. *)
THEOREM JobsInvariant == JobsSpec => []JobsInv
<1>1. JobsInv /\ [JobsNext]_jobVars => JobsInv'
  BY BackgroundStep, ClockStep, GrowthStep DEF JobsInv
<1> QED
  BY <1>1, InitJobs, PTL DEF JobsSpec

(* The list holds the nodes that are running, each once (background.go:33-42). *)
THEOREM ListTheorem == JobsSpec => []ListIsAlive
<1>1. JobsInv => ListIsAlive
  BY DEF JobsInv, BackgroundInv
<1> QED
  BY <1>1, JobsInvariant, PTL

(* They are ticked from oldest to newest (background.go:21). *)
THEOREM OldestTheorem == JobsSpec => []OldestFirst
<1>1. JobsInv => OldestFirst
  BY DEF JobsInv, BackgroundInv
<1> QED
  BY <1>1, JobsInvariant, PTL

(* None of them is left out for more ticks in a row than there are older ones,
   and others that have ended since (background.go:36-42). *)
THEOREM StarvationTheorem == JobsSpec => []NoStarvation
<1>1. JobsInv => NoStarvation
  BY DEF JobsInv, BackgroundInv
<1> QED
  BY <1>1, JobsInvariant, PTL

(* RateLimit keeps the list short (background.go:26, ratelimit.go:26-29). *)
THEOREM GrowthTheorem == JobsSpec => []GrowthBounded
<1>1. JobsInv => GrowthBounded
  <2> SUFFICES ASSUME JobsInv PROVE (Len(nodes) - 1) * d <= now
    BY DEF JobsInv, ClockInv, GrowthBounded
  <2>1. /\ d \in Nat /\ now \in Nat /\ Len(nodes) \in Nat
        /\ last = Never \/ last \in 0..now
    BY RateLimitAssumption, LenProperties DEF JobsInv, BackgroundInv, ClockInv, BackgroundTypeOK
  <2>2. CASE last = Never
    <3>1. Len(nodes) = 0
      BY <2>2 DEF JobsInv, Growth
    <3>2. (0 - 1) * d = 0 - d
      BY <2>1
    <3> QED
      BY <2>1, <3>1, <3>2
  <2>3. CASE last # Never
    <3>1. (Len(nodes) - 1) * d <= Len(nodes) * d
      BY <2>1
    <3>2. (Len(nodes) - 1) * d \in Int /\ Len(nodes) * d \in Int
      BY <2>1
    <3>3. (Len(nodes) - 1) * d <= last
      BY <2>1, <2>3, <3>1, <3>2 DEF JobsInv, Growth
    <3> QED
      BY <2>1, <2>3, <3>2, <3>3
  <2> QED
    BY <2>2, <2>3
<1> QED
  BY <1>1, JobsInvariant, PTL
=============================================================================
