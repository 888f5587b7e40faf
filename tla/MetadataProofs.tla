--------------------------- MODULE MetadataProofs ---------------------------
(***************************************************************************)
(* Proofs about Value and Walk: a query gets the answer of its own         *)
(* expansion, for any goroutines, keys and providers, and Walk visits the  *)
(* conceptual tree, for any tree; with the lemmas about induction and      *)
(* sequences that Walk and the printer need.                               *)
(***************************************************************************)
EXTENDS Value, Walk, SequenceTheorems, WellFoundedInduction, TLAPS

-----------------------------------------------------------------------------
(* Value *)

(* The package variables and the goroutines start with no query (value.go:33-40). *)
LEMMA InitIInv == Init => IInv
<1> SUFFICES ASSUME Init PROVE IInv
  OBVIOUS
<1>1. TypeOK
  <2>1. providers \in [Procs -> 0..MaxProviders]
    BY ValueAssumption DEF Init
  <2> QED
    BY <2>1 DEF Init, TypeOK, Labels
<1>2. OwnerInv
  BY ValueAssumption DEF Init, OwnerInv, Expanding, Nested, At
<1>3. AnswerInv
  BY DEF Init, AnswerInv, Expanding, Nested, At
<1> QED
  BY <1>1, <1>2, <1>3 DEF IInv

(* A step of one goroutine, as the disjuncts of Next. *)
LEMMA StepCases ==
  ASSUME [Next]_vars
  PROVE  \/ UNCHANGED vars
         \/ \E p \in Procs :
              \/ \E k \in Keys : Query(p, k)
              \/ Lock(p) \/ Prep(p) \/ Expanded(p) \/ Receive(p) \/ Return(p) \/ Panic(p)
              \/ Nest(p)
              \/ Expand(p) \/ ExpandReturns(p)
              \/ CheckActive(p) \/ Read(p) \/ Decline(p) \/ Provide(p) \/ Send(p)
  BY DEF Next, Step, UseValueProvider

(* A channel that nobody has can be made whenever Prep is possible. *)
LEMMA NewChannelIsNew ==
  ASSUME Channels \ InUse # {}
  PROVE  NewChannel \in Channels \ InUse
  BY DEF NewChannel

(* What a provider gives to a query has the key of the query. *)
LEMMA ProvidedType ==
  ASSUME IInv, NEW p \in inQuery, pc[p] \in {"ask", "send"}
  PROVE  /\ Provided(p) \in Values
         /\ Provided(p) # None
         /\ Provided(p)[3] = key[p]
<1>1. p \in Procs
  BY DEF IInv, TypeOK
<1>2. key[p] \in Keys /\ dataKey[p] = key[p]
  BY <1>1 DEF IInv, TypeOK, AnswerInv, Expanding, Nested, At
<1>3. providers[p] \in 1..MaxProviders
  BY <1>1, ValueAssumption DEF IInv, TypeOK, AnswerInv
<1>4. Provided(p) \in Values /\ Provided(p)[3] = key[p]
  BY <1>1, <1>2, <1>3 DEF Provided, Values
<1> QED
  BY <1>4, ValueAssumption

-----------------------------------------------------------------------------
(* Every step keeps the types (value.go:73-110 and 181-224). *)
LEMMA TypeStep == IInv /\ [Next]_vars => TypeOK'
<1> SUFFICES ASSUME IInv, [Next]_vars PROVE TypeOK'
  OBVIOUS
<1> USE DEF Goto, Set, At
<1>1. ASSUME NEW p \in Procs, NEW k \in Keys, Query(p, k) PROVE TypeOK'
  BY <1>1 DEF Query, IInv, TypeOK, Labels, locals, package
<1>2. ASSUME NEW p \in Procs, Lock(p) PROVE TypeOK'
  BY <1>2 DEF Lock, IInv, TypeOK, Labels, locals
<1>3. ASSUME NEW p \in Procs, Prep(p) PROVE TypeOK'
  BY <1>3, NewChannelIsNew DEF Prep, IInv, TypeOK, Labels, locals
<1>4. ASSUME NEW p \in Procs, Expanded(p) PROVE TypeOK'
  BY <1>4 DEF Expanded, IInv, TypeOK, Labels, locals
<1>5. ASSUME NEW p \in Procs, Receive(p) PROVE TypeOK'
  <2>1. valueDataChan \in Channels
    BY <1>5 DEF Receive, IInv, TypeOK, OwnerInv, AnswerInv
  <2> QED
    BY <1>5, <2>1 DEF Receive, IInv, TypeOK, Labels, locals, package
<1>6. ASSUME NEW p \in Procs, Return(p) PROVE TypeOK'
  BY <1>6, ValueAssumption DEF Return, Leave, IInv, TypeOK, Labels, locals
<1>7. ASSUME NEW p \in Procs, Panic(p) PROVE TypeOK'
  <2>1. pc' \in [Procs -> Labels] /\ inQuery' \subseteq Procs
    BY <1>7 DEF Panic, Leave, IInv, TypeOK, Labels
  <2>2. /\ key' \in [Procs -> Keys \cup {None}]
        /\ providers' \in [Procs -> 0..MaxProviders]
    BY <1>7, ValueAssumption DEF Panic, Leave, IInv, TypeOK
  <2>3. /\ dataKey' \in [Procs -> Keys \cup {None}]
        /\ dataChan' \in [Procs -> Channels \cup {None}]
    BY <1>7 DEF Panic, Leave, IInv, TypeOK
  <2>4. /\ value' \in [Procs -> Values \cup {None}]
        /\ first' \in [Procs -> Values \cup {None}]
    BY <1>7 DEF Panic, Leave, IInv, TypeOK
  <2> QED
    BY <1>7, <2>1, <2>2, <2>3, <2>4 DEF Panic, IInv, TypeOK
<1>8. ASSUME NEW p \in Procs, Expand(p) \/ ExpandReturns(p) PROVE TypeOK'
  BY <1>8, ValueAssumption DEF Expand, ExpandReturns, IInv, TypeOK, Labels, locals, package
<1>9. ASSUME NEW p \in Procs, CheckActive(p) PROVE TypeOK'
  BY <1>9, ValueAssumption DEF CheckActive, IInv, TypeOK, Labels, locals, package
<1>10. ASSUME NEW p \in Procs, Read(p) \/ Decline(p) PROVE TypeOK'
  BY <1>10 DEF Read, Decline, Back, IInv, TypeOK, Labels, package
<1>11. ASSUME NEW p \in Procs, Provide(p) PROVE TypeOK'
  BY <1>11, ProvidedType DEF Provide, IInv, TypeOK, Labels, locals, package
<1>12. ASSUME NEW p \in Procs, Send(p) PROVE TypeOK'
  BY <1>12, ProvidedType DEF Send, Back, IInv, TypeOK, Labels, package
<1>13. CASE UNCHANGED vars
  BY <1>13 DEF vars, stack, locals, package, IInv, TypeOK
<1>14. ASSUME NEW p \in Procs, Nest(p) PROVE TypeOK'
  BY <1>14 DEF Nest, IInv, TypeOK, Labels, locals, package
<1> QED
  BY <1>1, <1>2, <1>3, <1>4, <1>5, <1>6, <1>7, <1>8, <1>9, <1>10, <1>11, <1>12, <1>13, <1>14, StepCases

(* At most one goroutine is inside a query, and the flag is up only while its
   node is expanded (value.go:75-76 and 106-108). *)
LEMMA OwnerStep == IInv /\ [Next]_vars => OwnerInv'
<1> SUFFICES ASSUME IInv, [Next]_vars PROVE OwnerInv'
  OBVIOUS
<1> USE ValueAssumption DEF Goto, At, IInv, TypeOK, OwnerInv, Expanding, Nested
<1>1. ASSUME NEW p \in Procs, NEW k \in Keys, Query(p, k) PROVE OwnerInv'
  BY <1>1 DEF Query, locals, package
<1>2. ASSUME NEW p \in Procs, Lock(p) PROVE OwnerInv'
  BY <1>2 DEF Lock, locals
<1>3. ASSUME NEW p \in Procs, Prep(p) PROVE OwnerInv'
  BY <1>3 DEF Prep, locals
<1>4. ASSUME NEW p \in Procs, Expanded(p) PROVE OwnerInv'
  BY <1>4 DEF Expanded, locals
<1>5. ASSUME NEW p \in Procs, Receive(p) PROVE OwnerInv'
  BY <1>5 DEF Receive, locals, package
<1>6. ASSUME NEW p \in Procs, Return(p) PROVE OwnerInv'
  BY <1>6 DEF Return, Leave, locals
<1>7. ASSUME NEW p \in Procs, Panic(p) PROVE OwnerInv'
  BY <1>7 DEF Panic, Leave
<1>8. ASSUME NEW p \in Procs, Expand(p) \/ ExpandReturns(p) PROVE OwnerInv'
  BY <1>8 DEF Expand, ExpandReturns, locals, package
<1>9. ASSUME NEW p \in Procs, CheckActive(p) PROVE OwnerInv'
  BY <1>9 DEF CheckActive, locals, package
<1>10. ASSUME NEW p \in Procs, Read(p) \/ Decline(p) PROVE OwnerInv'
  BY <1>10 DEF Read, Decline, Back, package
<1>11. ASSUME NEW p \in Procs, Provide(p) PROVE OwnerInv'
  BY <1>11 DEF Provide, locals, package
<1>12. ASSUME NEW p \in Procs, Send(p) PROVE OwnerInv'
  BY <1>12 DEF Send, Back, package
<1>13. CASE UNCHANGED vars
  BY <1>13 DEF vars, stack, locals, package
<1>14. ASSUME NEW p \in Procs, Nest(p) PROVE OwnerInv'
  BY <1>14 DEF Nest, locals, package
<1> QED
  BY <1>1, <1>2, <1>3, <1>4, <1>5, <1>6, <1>7, <1>8, <1>9, <1>10, <1>11, <1>12, <1>13, <1>14, StepCases

(* What the expansion of a query provided first is in its channel, or about to
   be sent (value.go:195-217). *)
LEMMA AnswerStep == IInv /\ [Next]_vars => AnswerInv'
<1> SUFFICES ASSUME IInv, [Next]_vars PROVE AnswerInv'
  OBVIOUS
<1> USE ValueAssumption DEF Goto, Set, At, IInv, TypeOK, OwnerInv, AnswerInv, Expanding, Nested, Provided
<1>1. ASSUME NEW p \in Procs, NEW k \in Keys, Query(p, k) PROVE AnswerInv'
  BY <1>1 DEF Query, locals, package
<1>2. ASSUME NEW p \in Procs, Lock(p) PROVE AnswerInv'
  BY <1>2 DEF Lock, locals
<1>3. ASSUME NEW p \in Procs, Prep(p) PROVE AnswerInv'
  BY <1>3, NewChannelIsNew DEF Prep, locals
<1>4. ASSUME NEW p \in Procs, Expanded(p) PROVE AnswerInv'
  BY <1>4 DEF Expanded, locals
<1>5. ASSUME NEW p \in Procs, Receive(p) PROVE AnswerInv'
  BY <1>5 DEF Receive, locals, package
<1>6. ASSUME NEW p \in Procs, Return(p) PROVE AnswerInv'
  BY <1>6 DEF Return, Leave, locals
<1>7. ASSUME NEW p \in Procs, Panic(p) PROVE AnswerInv'
  BY <1>7 DEF Panic, Leave
<1>8. ASSUME NEW p \in Procs, Expand(p) \/ ExpandReturns(p) PROVE AnswerInv'
  BY <1>8 DEF Expand, ExpandReturns, locals, package
<1>9. ASSUME NEW p \in Procs, CheckActive(p) PROVE AnswerInv'
  BY <1>9 DEF CheckActive, locals, package
<1>10. ASSUME NEW p \in Procs, Read(p) \/ Decline(p) PROVE AnswerInv'
  BY <1>10 DEF Read, Decline, Back, package
<1>11. ASSUME NEW p \in Procs, Provide(p) PROVE AnswerInv'
  BY <1>11, ProvidedType DEF Provide, locals, package
<1>12. ASSUME NEW p \in Procs, Send(p) PROVE AnswerInv'
  <2>1. CASE p \in inQuery
    <3>1. /\ Provided(p) \in Values
          /\ Provided(p) # None
      BY <1>12, <2>1, ProvidedType DEF Send
    <3>2. /\ dataChan[p] = valueDataChan
          /\ valueDataChan \in Channels
          /\ first[p] # None
      BY <1>12, <2>1 DEF Send
    <3>3. buffer'[valueDataChan] = first[p]
      BY <1>12, <2>1, <3>1, <3>2 DEF Send
    <3>4. \A q \in inQuery : q = p
      BY <2>1
    <3> QED
      BY <1>12, <2>1, <3>2, <3>3, <3>4 DEF Send, Back, package
  <2>2. CASE p \notin inQuery
    BY <1>12, <2>2 DEF Send, Back, package
  <2> QED
    BY <2>1, <2>2
<1>13. CASE UNCHANGED vars
  BY <1>13 DEF vars, stack, locals, package
<1>14. ASSUME NEW p \in Procs, Nest(p) PROVE AnswerInv'
  BY <1>14 DEF Nest, locals, package
<1> QED
  BY <1>1, <1>2, <1>3, <1>4, <1>5, <1>6, <1>7, <1>8, <1>9, <1>10, <1>11, <1>12, <1>13, <1>14, StepCases

(* IInv is inductive. *)
LEMMA NextIInv == IInv /\ [Next]_vars => IInv'
  BY TypeStep, OwnerStep, AnswerStep DEF IInv

(* IInv holds in every reachable state of value.go. *)
THEOREM Invariance == Spec => []IInv
  BY InitIInv, NextIInv, PTL DEF Spec

(* A query returns what the outermost provider of its own expansion gave for
   its own key, or nil (value.go:152-154). *)
THEOREM Answers == Spec => []QueryAnswer
<1>1. IInv => QueryAnswer
  BY DEF IInv, AnswerInv, QueryAnswer, At
<1> QED
  BY <1>1, Invariance, PTL

(* Without a query in progress UseValueProvider asks nobody (value.go:155). *)
THEOREM ActiveOnly == Spec => []ActiveOnlyInQuery
<1>1. IInv => ActiveOnlyInQuery
  BY DEF IInv, OwnerInv, ActiveOnlyInQuery, Expanding
<1> QED
  BY <1>1, Invariance, PTL

(* A query that is made while a node is expanded for another one never ends,
   and none begins after it (docs/walk.md:88). *)
THEOREM NestedBlocks == Spec => NestedQueryBlocks
<1> DEFINE Blocked == (\E p \in Procs : Nested(p)) =>
                         \A q \in Procs : At(q, "lock") => At(q, "lock")'
<1>1. ASSUME IInv, [Next]_vars PROVE Blocked
  <2> SUFFICES ASSUME NEW p \in Procs, Nested(p), NEW q \in Procs, At(q, "lock")
               PROVE  At(q, "lock")'
    OBVIOUS
  <2>1. valueCallMutex # None
    BY <1>1, ValueAssumption DEF IInv, TypeOK, OwnerInv, Nested
  <2> USE DEF At, Goto, IInv, TypeOK
  <2>2. CASE UNCHANGED vars
    BY <1>1, <2>2 DEF vars, stack
  <2>3. ASSUME NEW r \in Procs,
               \/ \E k \in Keys : Query(r, k)
               \/ Lock(r) \/ Prep(r) \/ Expanded(r) \/ Receive(r) \/ Return(r) \/ Panic(r)
               \/ Nest(r)
               \/ Expand(r) \/ ExpandReturns(r)
               \/ CheckActive(r) \/ Read(r) \/ Decline(r) \/ Provide(r) \/ Send(r)
        PROVE  At(q, "lock")'
    BY <1>1, <2>1, <2>3 DEF Query, Lock, Prep, Expanded, Receive, Return, Panic, Nest, Leave, Expand,
      ExpandReturns, CheckActive, Read, Decline, Provide, Send, Back
  <2> QED
    BY <1>1, <2>2, <2>3, StepCases
<1> QED
  BY <1>1, Invariance, PTL DEF Spec, NestedQueryBlocks

-----------------------------------------------------------------------------
(* Induction: the counterexamples of a property are a set of numbers, which has a
   least one if it is not empty. *)

(* A set of numbers has a least member: induction, for a set of counterexamples. *)
LEMMA Least ==
  ASSUME NEW S, S \subseteq Nat, S # {}
  PROVE  \E m \in S : \A k \in S : m <= k
<1>1. PICK m \in S : \A k \in S : ~(<<k, m>> \in OpToRel(<, Nat))
  BY NatLessThanWellFounded, WFMin
<1>2. ASSUME NEW k \in S PROVE ~(k < m)
  <2>1. k \in Nat /\ m \in Nat /\ <<k, m>> \notin OpToRel(<, Nat)
    BY <1>1
  <2> QED
    BY <2>1 DEF OpToRel
<1> QED
  BY <1>2

(* Counterexamples of a property of numbers that 0 has and that goes from k to k + 1. *)
LEMMA Induction ==
  ASSUME NEW S, S \subseteq Nat, \A k \in S : \E j \in S : j < k
  PROVE  S = {}
<1> SUFFICES ASSUME S # {} PROVE FALSE
  OBVIOUS
<1>1. PICK m \in S : \A k \in S : m <= k
  BY Least
<1>2. PICK j \in S : j < m
  BY <1>1
<1> QED
  BY <1>1, <1>2

(* Induction over sequences, for the set of those with a property. *)
LEMMA SeqInduction ==
  ASSUME NEW S, NEW Good, <<>> \in Good,
         \A s \in Seq(S) : \A e \in S : s \in Good => Append(s, e) \in Good
  PROVE  Seq(S) \subseteq Good
<1> DEFINE Bad == {m \in Nat : \E s \in Seq(S) : Len(s) = m /\ s \notin Good}
<1>1. ASSUME NEW m \in Bad PROVE \E j \in Bad : j < m
  <2>1. PICK s \in Seq(S) : Len(s) = m /\ s \notin Good
    OBVIOUS
  <2>2. PICK u \in Seq(S), e \in S : s = Append(u, e)
    BY <2>1, SequenceEmptyOrAppend
  <2>3. u \notin Good
    BY <2>1, <2>2
  <2>4. Len(u) \in Nat /\ Len(u) < m
    BY <2>1, <2>2, AppendProperties, LenProperties
  <2> QED
    BY <2>3, <2>4
<1>2. Bad = {}
  BY <1>1, Induction
<1> SUFFICES ASSUME NEW s \in Seq(S), s \notin Good PROVE FALSE
  OBVIOUS
<1>3. Len(s) \in Nat
  BY LenProperties
<1>4. Len(s) \in Bad
  BY <1>3
<1> QED
  BY <1>2, <1>4

(* Induction from n down to 1, for the set of numbers with a property. *)
LEMMA DownInduction ==
  ASSUME NEW n \in Nat, NEW Good,
         \A i \in 1..n : i + 1..n \subseteq Good => i \in Good
  PROVE  1..n \subseteq Good
<1> DEFINE Bad == {m \in Nat : n - m \in 1..n /\ n - m \notin Good}
<1>1. ASSUME NEW m \in Bad PROVE \E j \in Bad : j < m
  <2>1. PICK j \in n - m + 1..n : j \notin Good
    OBVIOUS
  <2>2. n - j \in Nat /\ n - (n - j) = j /\ j \in 1..n /\ n - j < m
    BY <2>1
  <2> QED
    BY <2>1, <2>2
<1>2. Bad = {}
  BY <1>1, Induction
<1> SUFFICES ASSUME NEW i \in 1..n, i \notin Good PROVE FALSE
  OBVIOUS
<1>3. n - i \in Nat /\ n - (n - i) = i
  OBVIOUS
<1> QED
  BY <1>2, <1>3

-----------------------------------------------------------------------------
(* Sequences *)

(* What FlattenSeq concatenates: the sequences up to each position. *)
Flattens(h, ss) ==
  h = [i \in 1..Len(ss) |-> IF i = 1 THEN ss[i] ELSE h[i - 1] \o ss[i]]

(* The function in the definition of FlattenSeq exists, so that its CHOOSE is it. *)
LEMMA FlattenExists ==
  ASSUME NEW ss, Len(ss) \in Nat
  PROVE  \E h : Flattens(h, ss)
<1> DEFINE Upto(h, m) == h = [i \in 1..m |-> IF i = 1 THEN ss[i] ELSE h[i - 1] \o ss[i]]
           Bad == {m \in Nat : \A h : ~Upto(h, m)}
<1>1. ASSUME NEW m \in Nat \ {0}, NEW g, Upto(g, m - 1) PROVE \E h : Upto(h, m)
  <2> DEFINE h == [i \in 1..m |-> IF i = m THEN (IF i = 1 THEN ss[i] ELSE g[i - 1] \o ss[i])
                                  ELSE g[i]]
  <2>1. \A i \in 1..m - 1 : g[i] = IF i = 1 THEN ss[i] ELSE g[i - 1] \o ss[i]
    BY <1>1
  <2>2. \A i \in 1..m : h[i] = IF i = m THEN (IF i = 1 THEN ss[i] ELSE g[i - 1] \o ss[i]) ELSE g[i]
    OBVIOUS
  <2>3. h = [i \in 1..m |-> h[i]]
    OBVIOUS
  <2> HIDE DEF h
  <2>4. ASSUME NEW i \in 1..m PROVE h[i] = IF i = 1 THEN ss[i] ELSE h[i - 1] \o ss[i]
    <3>1. i # 1 => i - 1 \in 1..m - 1 /\ i - 1 # m /\ i - 1 \in 1..m
      OBVIOUS
    <3>2. i # 1 => h[i - 1] = g[i - 1]
      BY <3>1, <2>2
    <3>3. i # m => i \in 1..m - 1
      OBVIOUS
    <3> QED
      BY <2>1, <2>2, <3>2, <3>3
  <2>5. Upto(h, m)
    BY <2>3, <2>4, Zenon
  <2> QED
    BY <2>5
<1>2. \E h : Upto(h, 0)
  <2>1. Upto([i \in 1..0 |-> 0], 0)
    OBVIOUS
  <2> QED
    BY <2>1
<1> HIDE DEF Upto
<1>3. Bad = {}
  <2>1. ASSUME NEW m \in Bad PROVE \E j \in Bad : j < m
    <3>1. m # 0
      BY <1>2, <2>1
    <3>2. m - 1 \in Nat /\ m - 1 < m /\ m \in Nat \ {0}
      BY <3>1
    <3>3. ASSUME NEW g, Upto(g, m - 1) PROVE FALSE
      BY <1>1, <3>2, <3>3
    <3> QED
      BY <3>2, <3>3
  <2> QED
    BY <2>1, Induction
<1>4. PICK h : Upto(h, Len(ss))
  BY <1>3
<1>5. Flattens(h, ss)
  BY <1>4 DEF Upto, Flattens
<1> QED
  BY <1>5

(* What FlattenSeq computes: the function in its definition exists. *)
LEMMA FlattenDef ==
  ASSUME NEW ss, Len(ss) \in Nat
  PROVE  \E h : Flattens(h, ss) /\ (Len(ss) # 0 => FlattenSeq(ss) = h[Len(ss)])
<1> DEFINE h == CHOOSE h : Flattens(h, ss)
<1>1. Flattens(h, ss)
  BY FlattenExists
<1>2. Len(ss) # 0 => FlattenSeq(ss) = h[Len(ss)]
  BY DEF FlattenSeq, Flattens
<1> QED
  BY <1>1, <1>2

(* ConcatAssociative, for the solvers. *)
LEMMA Assoc == \A S : \A s, t, u \in Seq(S) : (s \o t) \o u = s \o (t \o u)
  BY ConcatAssociative

(* No sequences at all. *)
LEMMA FlattenEmpty == FlattenSeq(<<>>) = <<>>
  BY DEF FlattenSeq

(* A single sequence. *)
LEMMA FlattenOne == ASSUME NEW s PROVE FlattenSeq(<<s>>) = s
<1>1. Len(<<s>>) = 1 /\ <<s>>[1] = s
  OBVIOUS
<1>2. PICK h : Flattens(h, <<s>>) /\ (Len(<<s>>) # 0 => FlattenSeq(<<s>>) = h[Len(<<s>>)])
  BY <1>1, FlattenDef
<1> QED
  BY <1>1, <1>2 DEF Flattens

(* What is concatenated has the members of the sequences. *)
LEMMA FlattenType ==
  ASSUME NEW S, NEW ss \in Seq(Seq(S))
  PROVE  FlattenSeq(ss) \in Seq(S)
<1>1. Len(ss) \in Nat /\ \A i \in 1..Len(ss) : ss[i] \in Seq(S)
  BY ElementOfSeq, LenProperties
<1>2. PICK h : Flattens(h, ss) /\ (Len(ss) # 0 => FlattenSeq(ss) = h[Len(ss)])
  BY <1>1, FlattenDef
<1>3. \A i \in 1..Len(ss) : h[i] = IF i = 1 THEN ss[i] ELSE h[i - 1] \o ss[i]
  BY <1>2 DEF Flattens
<1> DEFINE Bad == {i \in 1..Len(ss) : h[i] \notin Seq(S)}
<1>4. ASSUME NEW i \in Bad PROVE \E j \in Bad : j < i
  <2>1. i # 1
    BY <1>1, <1>3
  <2>2. i \in 1..Len(ss) /\ i - 1 \in 1..Len(ss)
    BY <1>1, <2>1
  <2>4. h[i] = h[i - 1] \o ss[i]
    BY <1>3, <2>1, <2>2
  <2>3. h[i - 1] \notin Seq(S)
    BY <1>1, <2>2, <2>4, ConcatProperties
  <2> QED
    BY <1>1, <2>2, <2>3
<1>5. Bad = {}
  <2>1. Bad \subseteq Nat
    BY <1>1
  <2> HIDE DEF Bad
  <2> QED
    BY <1>4, <2>1, Induction
<1>6. CASE Len(ss) = 0
  BY <1>6, FlattenEmpty, EmptySeq
<1>7. CASE Len(ss) # 0
  BY <1>1, <1>2, <1>5, <1>7
<1> QED
  BY <1>6, <1>7

(* One more sequence at the end. *)
LEMMA FlattenAppend ==
  ASSUME NEW S, NEW ss \in Seq(Seq(S)), NEW s \in Seq(S)
  PROVE  FlattenSeq(Append(ss, s)) = FlattenSeq(ss) \o s
<1> DEFINE t == Append(ss, s)
           n == Len(ss)
<1>1. /\ n \in Nat /\ Len(t) = n + 1 /\ t[n + 1] = s
      /\ \A i \in 1..n : t[i] = ss[i]
  BY AppendProperties, LenProperties
<1>2. PICK h : Flattens(h, ss) /\ (Len(ss) # 0 => FlattenSeq(ss) = h[Len(ss)])
  BY <1>1, FlattenDef
<1> HIDE DEF t
<1>3. PICK g : Flattens(g, t) /\ (Len(t) # 0 => FlattenSeq(t) = g[Len(t)])
  BY <1>1, FlattenDef
<1>4. \A i \in 1..n : h[i] = IF i = 1 THEN ss[i] ELSE h[i - 1] \o ss[i]
  BY <1>2 DEF Flattens
<1>5. \A i \in 1..n + 1 : g[i] = IF i = 1 THEN t[i] ELSE g[i - 1] \o t[i]
  BY <1>1, <1>3 DEF Flattens
<1> DEFINE Bad == {i \in 1..n : h[i] # g[i]}
<1> HIDE DEF n
<1>6. ASSUME NEW i \in Bad PROVE \E j \in Bad : j < i
  <2>0. i \in 1..n /\ i \in 1..n + 1 /\ h[i] # g[i]
    BY <1>1
  <2>1. g[i] = IF i = 1 THEN ss[i] ELSE g[i - 1] \o ss[i]
    BY <1>1, <1>5, <2>0
  <2>2. i # 1 /\ i - 1 \in 1..n
    BY <1>1, <1>4, <2>0, <2>1
  <2>3. h[i - 1] # g[i - 1]
    BY <1>4, <2>0, <2>1, <2>2
  <2> QED
    BY <1>1, <2>2, <2>3
<1>7. Bad = {}
  <2>1. Bad \subseteq Nat
    BY <1>1
  <2> HIDE DEF Bad
  <2> QED
    BY <1>6, <2>1, Induction
<1>8. FlattenSeq(t) = g[n + 1]
  BY <1>1, <1>3
<1>9. CASE n = 0
  <2>1. FlattenSeq(t) = s
    BY <1>1, <1>5, <1>8, <1>9
  <2>2. ss = <<>>
    BY <1>9, EmptySeq DEF n
  <2> QED
    BY <2>1, <2>2, FlattenEmpty, ConcatEmptySeq DEF t
<1>10. CASE n # 0
  <2>1. n \in 1..n /\ n + 1 \in 1..n + 1 /\ n + 1 # 1 /\ (n + 1) - 1 = n
    BY <1>1, <1>10
  <2>2. g[n + 1] = g[n] \o s
    BY <1>1, <1>5, <2>1
  <2>3. g[n] = h[n]
    BY <1>7, <2>1
  <2> QED
    BY <1>2, <1>8, <1>10, <2>2, <2>3 DEF n, t
<1> QED
  BY <1>9, <1>10

(* One more member at the end of what is concatenated. *)
LEMMA ConcatAppend ==
  ASSUME NEW S, NEW s \in Seq(S), NEW t \in Seq(S), NEW e \in S
  PROVE  s \o Append(t, e) = Append(s \o t, e)
  OBVIOUS

(* Sequences of sequences, one after the other. *)
LEMMA FlattenConcat ==
  ASSUME NEW S, NEW a \in Seq(Seq(S)), NEW b \in Seq(Seq(S))
  PROVE  FlattenSeq(a \o b) = FlattenSeq(a) \o FlattenSeq(b)
<1>5. \A x, y, z \in Seq(S) : (x \o y) \o z = x \o (y \o z)
  BY Assoc
<1> DEFINE Fails(c) == FlattenSeq(a \o c) # FlattenSeq(a) \o FlattenSeq(c)
           Bad == {m \in Nat : \E c \in Seq(Seq(S)) : Len(c) = m /\ Fails(c)}
<1>1. ASSUME NEW m \in Bad PROVE \E j \in Bad : j < m
  <2>1. PICK c \in Seq(Seq(S)) : Len(c) = m /\ Fails(c)
    OBVIOUS
  <2>2. c # <<>>
    <3>1. ~Fails(<<>>)
      BY FlattenEmpty, FlattenType, ConcatEmptySeq
    <3> QED
      BY <2>1, <3>1
  <2>3. PICK d \in Seq(Seq(S)), s \in Seq(S) : c = Append(d, s)
    BY <2>2, SequenceEmptyOrAppend
  <2>4. a \o c = Append(a \o d, s) /\ a \o d \in Seq(Seq(S))
    <3>1. a \o d \in Seq(Seq(S))
      BY ConcatProperties
    <3>2. a \o Append(d, s) = Append(a \o d, s)
      BY ConcatAppend
    <3> QED
      BY <2>3, <3>1, <3>2
  <2>5. FlattenSeq(c) = FlattenSeq(d) \o s /\ FlattenSeq(a \o c) = FlattenSeq(a \o d) \o s
    BY <2>3, <2>4, FlattenAppend
  <2>6. Fails(d)
    <3>1. FlattenSeq(a) \in Seq(S) /\ FlattenSeq(d) \in Seq(S)
      BY FlattenType
    <3>2. (FlattenSeq(a) \o FlattenSeq(d)) \o s = FlattenSeq(a) \o (FlattenSeq(d) \o s)
      BY <1>5, <3>1, Zenon
    <3> QED
      BY <2>1, <2>5, <3>2
  <2>7. Len(d) \in Nat /\ Len(d) < m
    BY <2>1, <2>3, AppendProperties, LenProperties
  <2> HIDE DEF Fails
  <2> QED
    BY <2>6, <2>7
<1>2. Bad = {}
  BY <1>1, Induction
<1>3. Len(b) \in Nat
  BY LenProperties
<1>4. Len(b) \notin Bad
  BY <1>2
<1> QED
  BY <1>3, <1>4

(* A sequence of sequences given in two parts. *)
LEMMA FlattenParts ==
  ASSUME NEW S, NEW p \in Seq(Seq(S)), NEW q \in Seq(Seq(S)), NEW r,
         r = [k \in 1..Len(p) + Len(q) |-> r[k]],
         \A k \in 1..Len(p) : r[k] = p[k],
         \A k \in 1..Len(q) : r[Len(p) + k] = q[k]
  PROVE  FlattenSeq(r) = FlattenSeq(p) \o FlattenSeq(q)
<1> DEFINE T == Seq(S)
           m == Len(p)
           n == Len(q)
<1>1. p \in Seq(T) /\ q \in Seq(T)
  OBVIOUS
<1>2. \A k \in 1..m : r[k] = p[k]
  OBVIOUS
<1>3. \A k \in 1..n : r[m + k] = q[k]
  OBVIOUS
<1>4. r = [k \in 1..m + n |-> r[k]]
  OBVIOUS
<1> HIDE DEF T
<1>5. /\ m \in Nat /\ n \in Nat /\ Len(p \o q) = m + n /\ p \o q \in Seq(T)
      /\ \A k \in 1..m + n : (p \o q)[k] = IF k <= m THEN p[k] ELSE q[k - m]
  BY <1>1, LenProperties, ConcatProperties
<1> HIDE DEF m, n
<1>6. ASSUME NEW k \in 1..m + n PROVE (p \o q)[k] = r[k]
  <2>1. CASE k <= m
    <3>1. k \in 1..m
      BY <1>5, <2>1
    <3> QED
      BY <1>2, <1>5, <2>1, <3>1
  <2>2. CASE ~(k <= m)
    <3>1. k - m \in 1..n /\ m + (k - m) = k
      BY <1>5, <2>2
    <3> QED
      BY <1>3, <1>5, <2>2, <3>1
  <2> QED
    BY <2>1, <2>2
<1>7. p \o q = [k \in 1..m + n |-> (p \o q)[k]]
  BY <1>5, LenProperties
<1>8. p \o q = r
  <2> DEFINE c == p \o q
  <2>1. c = [k \in 1..m + n |-> c[k]] /\ \A k \in 1..m + n : c[k] = r[k]
    BY <1>6, <1>7
  <2> HIDE DEF c
  <2>2. c = r
    BY <1>4, <2>1, Zenon
  <2> QED
    BY <2>2 DEF c
<1>9. FlattenSeq(p \o q) = FlattenSeq(p) \o FlattenSeq(q)
  BY FlattenConcat
<1> QED
  BY <1>8, <1>9

(* Empty sequences. *)
LEMMA FlattenNothing ==
  ASSUME NEW S, NEW q \in Seq(Seq(S)), \A k \in DOMAIN q : q[k] = <<>>
  PROVE  FlattenSeq(q) = <<>>
<1> DEFINE T == Seq(S)
           Good == {u \in Seq(T) : (\A k \in DOMAIN u : u[k] = <<>>) => FlattenSeq(u) = <<>>}
<1>1. <<>> \in Good
  BY FlattenEmpty, EmptySeq
<1>2. ASSUME NEW u \in Seq(T), NEW s \in T, u \in Good PROVE Append(u, s) \in Good
  <2>1. FlattenSeq(Append(u, s)) = FlattenSeq(u) \o s
    BY FlattenAppend
  <2> HIDE DEF T
  <2>2. /\ Append(u, s) \in Seq(T) /\ Len(u) \in Nat /\ DOMAIN u = 1..Len(u)
        /\ DOMAIN Append(u, s) = 1..Len(u) + 1 /\ Append(u, s)[Len(u) + 1] = s
        /\ \A k \in 1..Len(u) : Append(u, s)[k] = u[k]
    BY AppendProperties, LenProperties
  <2>3. ASSUME \A k \in DOMAIN Append(u, s) : Append(u, s)[k] = <<>>
        PROVE  FlattenSeq(Append(u, s)) = <<>>
    <3>1. s = <<>> /\ \A k \in DOMAIN u : u[k] = <<>>
      <4>1. Len(u) + 1 \in DOMAIN Append(u, s) /\ \A k \in DOMAIN u : k \in DOMAIN Append(u, s)
        BY <2>2
      <4> QED
        BY <2>2, <2>3, <4>1
    <3>2. FlattenSeq(u) = <<>>
      BY <1>2, <3>1
    <3>3. <<>> \o <<>> = <<>>
      OBVIOUS
    <3> QED
      BY <2>1, <3>1, <3>2, <3>3
  <2> QED
    BY <2>2, <2>3
<1> HIDE DEF Good
<1>3. Seq(T) \subseteq Good
  BY <1>1, <1>2, SeqInduction
<1> QED
  BY <1>3 DEF Good

(* What a function gives for the members of a sequence, one after the other. *)
Each(s, f) == FlattenSeq([k \in DOMAIN s |-> f[s[k]]])

(* What it gives, member by member and together. *)
LEMMA EachParts ==
  ASSUME NEW A, NEW B, NEW f \in [A -> Seq(B)], NEW s \in Seq(A)
  PROVE  /\ [k \in DOMAIN s |-> f[s[k]]] \in Seq(Seq(B))
         /\ Each(s, f) \in Seq(B)
<1>1. Len(s) \in Nat /\ DOMAIN s = 1..Len(s) /\ \A k \in 1..Len(s) : s[k] \in A
  BY LenProperties, ElementOfSeq
<1>2. \A k \in 1..Len(s) : f[s[k]] \in Seq(B)
  BY <1>1
<1>3. [k \in DOMAIN s |-> f[s[k]]] \in Seq(Seq(B))
  BY <1>1, <1>2
<1> QED
  BY <1>3, FlattenType DEF Each

(* Nothing is given for no members. *)
LEMMA EachEmpty == ASSUME NEW f PROVE Each(<<>>, f) = <<>>
<1>1. [k \in DOMAIN <<>> |-> f[<<>>[k]]] = <<>>
  OBVIOUS
<1> QED
  BY <1>1, FlattenEmpty DEF Each

(* A single member. *)
LEMMA EachOne == ASSUME NEW f, NEW x PROVE Each(<<x>>, f) = f[x]
<1>1. [k \in DOMAIN <<x>> |-> f[<<x>>[k]]] = <<f[x]>>
  OBVIOUS
<1> QED
  BY <1>1, FlattenOne DEF Each

(* One more member at the end. *)
LEMMA EachAppend ==
  ASSUME NEW A, NEW B, NEW f \in [A -> Seq(B)], NEW s \in Seq(A), NEW e \in A
  PROVE  Each(Append(s, e), f) = Each(s, f) \o f[e]
<1> DEFINE p == [k \in DOMAIN s |-> f[s[k]]]
           q == [k \in DOMAIN Append(s, e) |-> f[Append(s, e)[k]]]
           T == Seq(B)
<1>1. p \in Seq(T) /\ f[e] \in T
  BY EachParts
<1>2. /\ Len(s) \in Nat /\ DOMAIN s = 1..Len(s) /\ DOMAIN Append(s, e) = 1..Len(s) + 1
      /\ Append(s, e)[Len(s) + 1] = e /\ \A k \in 1..Len(s) : Append(s, e)[k] = s[k]
  BY AppendProperties, LenProperties
<1>3. q = [k \in 1..Len(s) + 1 |-> f[Append(s, e)[k]]] /\ p = [k \in 1..Len(s) |-> f[s[k]]]
  BY <1>2
<1>4. Len(p) = Len(s)
  BY <1>2, <1>3
<1>5. Append(p, f[e]) = q
  <2>1. ASSUME NEW k \in 1..Len(s) + 1 PROVE Append(p, f[e])[k] = f[Append(s, e)[k]]
    <3>1. CASE k = Len(s) + 1
      <4>1. Append(p, f[e])[Len(s) + 1] = f[e]
        <5> HIDE DEF p, T
        <5> QED
          BY <1>1, <1>4, AppendProperties
      <4> QED
        BY <1>2, <3>1, <4>1
    <3>2. CASE k # Len(s) + 1
      <4>1. k \in 1..Len(s)
        BY <1>2, <3>2
      <4>2. Append(p, f[e])[k] = p[k]
        <5> HIDE DEF p, T
        <5> QED
          BY <1>1, <1>4, <4>1, AppendProperties
      <4> QED
        BY <1>2, <1>3, <4>1, <4>2
    <3> QED
      BY <3>1, <3>2
  <2>2. Append(p, f[e]) = [k \in 1..Len(s) + 1 |-> Append(p, f[e])[k]]
    <3> HIDE DEF p, T
    <3>1. Append(p, f[e]) \in Seq(T) /\ Len(Append(p, f[e])) = Len(s) + 1
      BY <1>1, <1>4, AppendProperties
    <3> QED
      BY <3>1, LenProperties
  <2> HIDE DEF p, q
  <2> QED
    BY <1>3, <2>1, <2>2, Zenon
<1>6. FlattenSeq(Append(p, f[e])) = FlattenSeq(p) \o f[e]
  <2> HIDE DEF p
  <2> QED
    BY <1>1, FlattenAppend
<1> QED
  BY <1>5, <1>6 DEF Each

(* The members of two sequences. *)
LEMMA EachConcat ==
  ASSUME NEW A, NEW B, NEW f \in [A -> Seq(B)], NEW a \in Seq(A), NEW b \in Seq(A)
  PROVE  Each(a \o b, f) = Each(a, f) \o Each(b, f)
<1>5. \A x, y, z \in Seq(B) : (x \o y) \o z = x \o (y \o z)
  BY Assoc
<1> DEFINE Good == {s \in Seq(A) : Each(a \o s, f) = Each(a, f) \o Each(s, f)}
<1>1. Each(a, f) \in Seq(B)
  BY EachParts
<1>2. <<>> \in Good
  BY <1>1, EachEmpty, ConcatEmptySeq, EmptySeq
<1>3. ASSUME NEW s \in Seq(A), NEW e \in A, s \in Good PROVE Append(s, e) \in Good
  <2>1. a \o s \in Seq(A) /\ Append(s, e) \in Seq(A) /\ a \o Append(s, e) = Append(a \o s, e)
    BY ConcatProperties, AppendProperties, ConcatAppend
  <2>2. Each(s, f) \in Seq(B) /\ f[e] \in Seq(B)
    BY EachParts
  <2>3. Each(a \o Append(s, e), f) = (Each(a, f) \o Each(s, f)) \o f[e]
    BY <1>3, <2>1, EachAppend
  <2>4. Each(Append(s, e), f) = Each(s, f) \o f[e]
    BY EachAppend
  <2>6. (Each(a, f) \o Each(s, f)) \o f[e] = Each(a, f) \o (Each(s, f) \o f[e])
    BY <1>1, <1>5, <2>2
  <2> QED
    BY <2>1, <2>3, <2>4, <2>6
<1> HIDE DEF Good
<1>4. Seq(A) \subseteq Good
  BY <1>2, <1>3, SeqInduction
<1> QED
  BY <1>4 DEF Good

(* The members of sequences, one sequence after the other. *)
LEMMA EachFlatten ==
  ASSUME NEW A, NEW B, NEW f \in [A -> Seq(B)], NEW ss \in Seq(Seq(A))
  PROVE  Each(FlattenSeq(ss), f) = Each(ss, [s \in Seq(A) |-> Each(s, f)])
<1> DEFINE g == [s \in Seq(A) |-> Each(s, f)]
           Good == {u \in Seq(Seq(A)) : Each(FlattenSeq(u), f) = Each(u, g)}
<1>1. g \in [Seq(A) -> Seq(B)] /\ \A s \in Seq(A) : g[s] = Each(s, f)
  BY EachParts
<1>2. <<>> \in Good
  BY FlattenEmpty, EachEmpty, EmptySeq
<1> HIDE DEF g
<1>3. ASSUME NEW u \in Seq(Seq(A)), NEW s \in Seq(A), u \in Good PROVE Append(u, s) \in Good
  <2>1. Append(u, s) \in Seq(Seq(A)) /\ FlattenSeq(u) \in Seq(A)
    BY AppendProperties, FlattenType
  <2>2. FlattenSeq(Append(u, s)) = FlattenSeq(u) \o s
    BY FlattenAppend
  <2>3. Each(FlattenSeq(u) \o s, f) = Each(FlattenSeq(u), f) \o Each(s, f)
    BY <2>1, EachConcat
  <2>4. Each(Append(u, s), g) = Each(u, g) \o g[s]
    BY <1>1, EachAppend
  <2> QED
    BY <1>1, <1>3, <2>1, <2>2, <2>3, <2>4
<1> HIDE DEF Good
<1>4. Seq(Seq(A)) \subseteq Good
  BY <1>2, <1>3, SeqInduction
<1> QED
  BY <1>4 DEF Good, g

(* Twice: first one function, then the other. *)
Gives(f, A, B) == f \in [A -> Seq(B)]

(* What g gives for each of what f gives, if h is that for each member. *)
LEMMA EachEach ==
  ASSUME NEW A, NEW B, NEW C, NEW f, NEW g, NEW h, NEW s \in Seq(A),
         Gives(f, A, B), Gives(g, B, C), Gives(h, A, C),
         \A x \in A : h[x] = Each(f[x], g)
  PROVE  Each(Each(s, f), g) = Each(s, h)
<1>1. f \in [A -> Seq(B)] /\ g \in [B -> Seq(C)] /\ h \in [A -> Seq(C)]
  BY DEF Gives
<1> DEFINE Good == {u \in Seq(A) : Each(Each(u, f), g) = Each(u, h)}
<1>2. <<>> \in Good
  BY EachEmpty, EmptySeq
<1>3. ASSUME NEW u \in Seq(A), NEW x \in A, u \in Good PROVE Append(u, x) \in Good
  <2>1. Append(u, x) \in Seq(A) /\ Each(u, f) \in Seq(B) /\ f[x] \in Seq(B)
    BY <1>1, AppendProperties, EachParts
  <2>2. Each(Append(u, x), f) = Each(u, f) \o f[x]
    BY <1>1, EachAppend
  <2>3. Each(Each(u, f) \o f[x], g) = Each(Each(u, f), g) \o Each(f[x], g)
    <3> DEFINE p == Each(u, f)
               q == f[x]
    <3>1. p \in Seq(B) /\ q \in Seq(B)
      BY <2>1
    <3> HIDE DEF p, q
    <3>2. Each(p \o q, g) = Each(p, g) \o Each(q, g)
      BY <1>1, <3>1, EachConcat
    <3> QED
      BY <3>2 DEF p, q
  <2>4. Each(Append(u, x), h) = Each(u, h) \o h[x]
    BY <1>1, EachAppend
  <2> QED
    BY <1>3, <2>1, <2>2, <2>3, <2>4
<1> HIDE DEF Good
<1>4. Seq(A) \subseteq Good
  BY <1>2, <1>3, SeqInduction
<1> QED
  BY <1>4 DEF Good

(* Appending commutes with adding further back. *)
LEMMA AppendConcat ==
  ASSUME NEW S, NEW s \in Seq(S), NEW e \in S, NEW u \in Seq(S)
  PROVE  Append(s, e) \o u = s \o (<<e>> \o u)
<1>1. Append(s, e) = s \o <<e>> /\ <<e>> \in Seq(S)
  OBVIOUS
<1>3. \A x, y, z \in Seq(S) : (x \o y) \o z = x \o (y \o z)
  BY Assoc
<1>2. (s \o <<e>>) \o u = s \o (<<e>> \o u)
  BY <1>1, <1>3
<1> QED
  BY <1>1, <1>2

(* A sequence is a prefix of what begins with it. *)
LEMMA PrefixOfConcat ==
  ASSUME NEW S, NEW s \in Seq(S), NEW u \in Seq(S)
  PROVE  IsPrefix(s, s \o u)
<1>1. Len(s) \in Nat /\ Len(u) \in Nat /\ s \o u \in Seq(S) /\ Len(s \o u) = Len(s) + Len(u)
  BY LenProperties, ConcatProperties
<1>2. SubSeq(s \o u, 1, Len(s)) = SubSeq(s, 1, Len(s))
  <2>1. CASE Len(s) = 0
    BY <1>1, <2>1, SubSeqEmpty
  <2>2. CASE Len(s) # 0
    <3>1. 1 \in 1..Len(s) /\ Len(s) \in 1..Len(s)
      BY <1>1, <2>2
    <3> QED
      BY <3>1, SubSeqOfConcat1
  <2> QED
    BY <2>1, <2>2
<1> QED
  BY <1>1, <1>2 DEF IsPrefix

(* What Append adds. *)
LEMMA AppendMembers ==
  ASSUME NEW S, NEW s \in Seq(S), NEW e \in S
  PROVE  /\ Append(s, e) \in Seq(S)
         /\ Last(Append(s, e)) = e
         /\ \A x : Contains(Append(s, e), x) <=> Contains(s, x) \/ x = e
<1>1. Len(s) \in Nat /\ Append(s, e) \in Seq(S) /\ Len(Append(s, e)) = Len(s) + 1
      /\ Append(s, e)[Len(s) + 1] = e /\ \A k \in 1..Len(s) : Append(s, e)[k] = s[k]
  OBVIOUS
<1>2. ASSUME NEW x PROVE Contains(Append(s, e), x) <=> Contains(s, x) \/ x = e
  <2>1. ASSUME NEW k \in 1..Len(s) + 1, Append(s, e)[k] = x, x # e
        PROVE  k \in 1..Len(s) /\ s[k] = x
    BY <1>1, <2>1
  <2>2. Len(s) + 1 \in 1..Len(s) + 1 /\ \A k \in 1..Len(s) : k \in 1..Len(s) + 1
    BY <1>1
  <2> QED
    BY <1>1, <2>1, <2>2 DEF Contains
<1> QED
  BY <1>1, <1>2 DEF Last

(* What a sequence begins with. *)
LEMMA FirstOfConcat ==
  ASSUME NEW L, NEW a \in Seq(L), a # <<>>, NEW b \in Seq(L)
  PROVE  a \o b # <<>> /\ (a \o b)[1] = a[1]
<1>1. Len(a) \in Nat \ {0} /\ Len(b) \in Nat /\ a \o b \in Seq(L) /\ Len(a \o b) = Len(a) + Len(b)
      /\ \A k \in 1..Len(a) + Len(b) : (a \o b)[k] = IF k <= Len(a) THEN a[k] ELSE b[k - Len(a)]
  BY EmptySeq, LenProperties, ConcatProperties
<1> QED
  BY <1>1, EmptySeq

(* The first and the others of a list with others after it. *)
LEMMA FirstOfList ==
  ASSUME NEW L, NEW a \in Seq(L), a # <<>>, NEW b \in Seq(L)
  PROVE  /\ a \o b \in Seq(L) /\ a \o b # <<>>
         /\ Head(a \o b) = Head(a) /\ Tail(a \o b) = Tail(a) \o b
<1> DEFINE c == a \o b
           d == Tail(a) \o b
<1>1. /\ Len(a) \in Nat \ {0} /\ Len(b) \in Nat /\ c \in Seq(L) /\ Len(c) = Len(a) + Len(b)
      /\ \A k \in 1..Len(a) + Len(b) : c[k] = IF k <= Len(a) THEN a[k] ELSE b[k - Len(a)]
  BY EmptySeq, LenProperties, ConcatProperties
<1>2. c # <<>>
  BY <1>1, EmptySeq
<1>3. /\ Tail(a) \in Seq(L) /\ Len(Tail(a)) = Len(a) - 1 /\ Head(a) = a[1]
      /\ \A k \in 1..Len(a) - 1 : Tail(a)[k] = a[k + 1]
  BY <1>1, HeadTailProperties
<1>4. /\ d \in Seq(L) /\ Len(d) = Len(a) - 1 + Len(b)
      /\ \A k \in 1..Len(a) - 1 + Len(b) :
           d[k] = IF k <= Len(a) - 1 THEN Tail(a)[k] ELSE b[k - (Len(a) - 1)]
  BY <1>3, ConcatProperties
<1> HIDE DEF c, d
<1>5. /\ Tail(c) \in Seq(L) /\ Len(Tail(c)) = Len(c) - 1 /\ Head(c) = c[1]
      /\ \A k \in 1..Len(c) - 1 : Tail(c)[k] = c[k + 1]
  BY <1>1, <1>2, HeadTailProperties
<1>6. \A k \in 1..Len(Tail(c)) : Tail(c)[k] = d[k]
  <2> SUFFICES ASSUME NEW k \in 1..Len(Tail(c)) PROVE Tail(c)[k] = d[k]
    OBVIOUS
  <2>1. /\ k \in 1..Len(a) - 1 + Len(b) /\ k + 1 \in 1..Len(a) + Len(b)
        /\ Tail(c)[k] = c[k + 1]
    BY <1>1, <1>5
  <2>2. CASE k <= Len(a) - 1
    <3>1. k \in 1..Len(a) - 1 /\ k + 1 <= Len(a)
      BY <1>1, <2>1, <2>2
    <3> QED
      BY <1>1, <1>3, <1>4, <2>1, <3>1
  <2>3. CASE ~(k <= Len(a) - 1)
    <3>1. ~(k + 1 <= Len(a)) /\ (k + 1) - Len(a) = k - (Len(a) - 1)
      BY <1>1, <2>1, <2>3
    <3>2. c[k + 1] = b[(k + 1) - Len(a)]
      BY <1>1, <2>1, <3>1
    <3>3. d[k] = b[k - (Len(a) - 1)]
      BY <1>4, <2>1, <2>3
    <3> QED
      BY <2>1, <3>1, <3>2, <3>3
  <2> QED
    BY <2>2, <2>3
<1>7. Tail(c) = d
  BY <1>1, <1>4, <1>5, <1>6, SeqEqual
<1>8. Head(c) = Head(a)
  BY <1>1, <1>3, <1>5
<1> QED
  BY <1>1, <1>2, <1>7, <1>8 DEF c, d

(* One line or two. *)
LEMMA OneOrTwo == ASSUME NEW a, NEW b PROVE <<a>> \o <<b>> = <<a, b>> /\ <<a>> \o <<>> = <<a>>
<1> DEFINE S == {a, b}
<1>1. <<a>> \in Seq(S) /\ <<b>> \in Seq(S) /\ <<a, b>> \in Seq(S)
  OBVIOUS
<1>4. Append(<<a>>, b) = <<a, b>> /\ <<a>> \o <<b>> = Append(<<a>>, b)
  <2>1. Append(<<a>>, b) = <<a, b>>
    <3>1. Append(<<a>>, b) \in Seq(S) /\ Len(Append(<<a>>, b)) = 2
          /\ Append(<<a>>, b)[1] = a /\ Append(<<a>>, b)[2] = b
      BY <1>1, AppendProperties
    <3>2. Len(<<a, b>>) = 2 /\ <<a, b>>[1] = a /\ <<a, b>>[2] = b
      OBVIOUS
    <3>3. \A k \in 1..2 : Append(<<a>>, b)[k] = <<a, b>>[k]
      BY <3>1, <3>2
    <3> DEFINE u == Append(<<a>>, b)
               v == <<a, b>>
    <3> HIDE DEF u, v
    <3>4. u = v
      BY <1>1, <3>1, <3>2, <3>3, SeqEqual DEF u, v
    <3> QED
      BY <3>4 DEF u, v
  <2>2. b \in S /\ <<>> \in Seq(S)
    BY <1>1
  <2>3. <<a>> \o Append(<<>>, b) = Append(<<a>> \o <<>>, b)
    BY <1>1, <2>2, ConcatAppend
  <2>4. Append(<<>>, b) = <<b>>
    OBVIOUS
  <2> QED
    BY <1>1, <2>1, <2>3, <2>4, ConcatEmptySeq
<1>2. <<a>> \o <<b>> = <<a, b>>
  BY <1>4
<1>3. <<a>> \o <<>> = <<a>>
  BY <1>1, ConcatEmptySeq
<1> QED
  BY <1>2, <1>3

-----------------------------------------------------------------------------
(* Walk *)

(* The children of Node.Children, given by the first value for the key, are those
   claimed last (metadata.go:129-132, 217-229). *)
LEMMA ClaimedIsLogical ==
  ASSUME NEW t, IsTree(t), NEW i \in 1..t.n
  PROVE  Logical(t, i) = Claimed(t, i) /\ Claimed(t, i) \in Lists(t, i)
<1> DEFINE w == t.wraps[i]
           mine == {k \in DOMAIN w : w[k].key = "structure"}
           IsLast(k) == w[k].key = "structure" /\ \A j \in 1..k - 1 : w[j].key # "structure"
<1>1. /\ Len(w) \in Nat /\ DOMAIN w = 1..Len(w)
      /\ \A k \in 1..Len(w) : w[k].value \in Seq(Lists(t, i))
      /\ t.children[i] \in Lists(t, i)
  <2>1. w \in Wraps(t, i) /\ t.children[i] \in Lists(t, i)
    BY DEF IsTree
  <2> HIDE DEF w
  <2>2. Len(w) \in Nat /\ DOMAIN w = 1..Len(w)
    BY <2>1, LenProperties DEF Wraps
  <2>3. ASSUME NEW k \in 1..Len(w) PROVE w[k].value \in Seq(Lists(t, i))
    <3>1. w[k] \in [key : {"name", "structure"}, value : Seq(Lists(t, i))]
      BY <2>1, ElementOfSeq DEF Wraps
    <3> QED
      BY <3>1
  <2> QED
    BY <2>1, <2>2, <2>3
<1>2. Value(t, i, "structure") = IF mine = {} THEN Cleared ELSE w[Min(mine)].value
  BY DEF Value
<1>3. Claimed(t, i) = IF \E k \in DOMAIN w : IsLast(k) /\ w[k].value # Cleared
                        THEN w[CHOOSE k \in DOMAIN w : IsLast(k)].value[1]
                        ELSE t.children[i]
  BY DEF Claimed
<1> HIDE DEF w
<1>4. CASE mine = {}
  BY <1>1, <1>2, <1>3, <1>4 DEF Logical
<1>5. CASE mine # {}
  <2>1. mine \subseteq Nat
    BY <1>1
  <2> DEFINE m == Min(mine)
  <2>2. m \in mine /\ \A k \in mine : m <= k
    <3> HIDE DEF mine
    <3> QED
      BY <1>5, <2>1, Least DEF Min
  <2> HIDE DEF m
  <2>3. m \in DOMAIN w /\ IsLast(m)
    BY <1>1, <2>2
  <2>4. ASSUME NEW k \in DOMAIN w, IsLast(k) PROVE k = m
    BY <1>1, <2>2, <2>3, <2>4
  <2>5. (CHOOSE k \in DOMAIN w : IsLast(k)) = m
    BY <2>3, <2>4
  <2>6. Value(t, i, "structure") = w[m].value
    BY <1>2, <1>5 DEF m
  <2>7. w[m].value \in Seq(Lists(t, i))
    BY <1>1, <2>3
  <2>8. CASE w[m].value = Cleared
    <3>1. Logical(t, i) = t.children[i]
      BY <2>6, <2>8 DEF Logical
    <3>2. Claimed(t, i) = t.children[i]
      BY <1>3, <2>4, <2>8
    <3> QED
      BY <1>1, <3>1, <3>2
  <2>9. CASE w[m].value # Cleared
    <3>1. Logical(t, i) = w[m].value[1]
      BY <2>6, <2>9 DEF Logical
    <3>2. Claimed(t, i) = w[m].value[1]
      BY <1>3, <2>3, <2>5, <2>9
    <3>3. w[m].value[1] \in Lists(t, i)
      <4>1. 1 \in 1..Len(w[m].value)
        BY <2>7, <2>9, EmptySeq DEF Cleared
      <4> QED
        BY <2>7, <4>1, ElementOfSeq
    <3> QED
      BY <3>1, <3>2, <3>3
  <2> QED
    BY <2>8, <2>9
<1> QED
  BY <1>4, <1>5

(* The members of a list of children. *)
LEMMA ListMembers ==
  ASSUME NEW t, IsTree(t), NEW i \in 1..t.n, NEW s \in Lists(t, i)
  PROVE  /\ s \in Seq(0..t.n) /\ Len(s) \in Nat /\ DOMAIN s = 1..Len(s)
         /\ \A k \in DOMAIN s : s[k] = Nil \/ s[k] \in i + 1..t.n
<1>1. Len(s) \in Nat /\ DOMAIN s = 1..Len(s)
  BY LenProperties DEF Lists
<1>2. t.n \in Nat /\ {Nil} \cup (i + 1..t.n) \subseteq 0..t.n
  BY DEF IsTree, Nil
<1>3. s \in Seq(0..t.n)
  BY <1>2, SeqMonotonic DEF Lists
<1> QED
  BY <1>1, <1>3, ElementOfSeq DEF Lists

(* What is in the definition of PreOrder. *)
Orders(t, f) ==
  f = [i \in 0..t.n |->
        <<i>> \o IF i = Nil THEN <<>>
                 ELSE FlattenSeq([k \in DOMAIN Claimed(t, i) |-> f[Claimed(t, i)[k]]])]

(* The function in the definition of PreOrder exists, since the children of a node
   are greater than it: the order is found for the greatest node first. *)
LEMMA PreOrderDef == ASSUME NEW t, IsTree(t) PROVE Orders(t, PreOrder(t))
<1> DEFINE n == t.n
           c(i) == Claimed(t, i)
           Body(g, i) == <<i>> \o IF i = Nil THEN <<>>
                                  ELSE FlattenSeq([k \in DOMAIN c(i) |-> g[c(i)[k]]])
           D(m) == {0} \cup (n - m + 1..n)
           Upto(h, m) == h = [i \in D(m) |-> Body(h, i)]
<1>1. n \in Nat
  BY DEF IsTree
<1>2. ASSUME NEW i \in 1..n, NEW k \in DOMAIN c(i) PROVE c(i)[k] = 0 \/ c(i)[k] \in i + 1..n
  BY ClaimedIsLogical, ListMembers DEF Nil
<1> HIDE DEF c, n
<1>3. ASSUME NEW m \in 1..n, NEW g, Upto(g, m - 1) PROVE \E h : Upto(h, m)
  <2> DEFINE h == [i \in D(m) |-> IF i \in D(m - 1) THEN g[i] ELSE Body(g, i)]
  <2>1. \A i \in D(m - 1) : i \in D(m) /\ h[i] = g[i] /\ g[i] = Body(g, i)
    <3>1. D(m - 1) \subseteq D(m)
      BY <1>1
    <3> HIDE DEF D, Body
    <3> QED
      BY <1>3, <3>1
  <2>2. ASSUME NEW i \in D(m) PROVE Body(h, i) = Body(g, i)
    <3>1. ASSUME i # Nil, NEW k \in DOMAIN c(i) PROVE h[c(i)[k]] = g[c(i)[k]]
      <4>1. i \in 1..n /\ i > n - m
        BY <1>1, <3>1 DEF Nil
      <4>2. c(i)[k] \in D(m - 1)
        BY <1>1, <1>2, <3>1, <4>1
      <4> HIDE DEF D, h
      <4> QED
        BY <2>1, <4>2
    <3> HIDE DEF h
    <3>2. i # Nil => [k \in DOMAIN c(i) |-> h[c(i)[k]]] = [k \in DOMAIN c(i) |-> g[c(i)[k]]]
      BY <3>1
    <3> QED
      BY <3>2
  <2>3. ASSUME NEW i \in D(m) PROVE h[i] = Body(h, i)
    <3>1. CASE i \in D(m - 1)
      <4> HIDE DEF D, h, Body
      <4> QED
        BY <2>1, <2>2, <3>1
    <3>2. CASE i \notin D(m - 1)
      <4>1. h[i] = Body(g, i)
        <5> HIDE DEF D, Body
        <5> QED
          BY <3>2
      <4> HIDE DEF D, h, Body
      <4> QED
        BY <2>2, <4>1
    <3> QED
      BY <3>1, <3>2
  <2>4. h = [i \in D(m) |-> h[i]]
    <3> HIDE DEF D, Body
    <3> QED
      OBVIOUS
  <2> HIDE DEF h, D, Body
  <2>5. h = [i \in D(m) |-> Body(h, i)]
    BY <2>3, <2>4, Zenon
  <2> QED
    BY <2>5
<1>4. \E h : Upto(h, 0)
  <2> DEFINE h == [i \in {0} |-> <<0>> \o <<>>]
  <2>1. D(0) = {0}
    BY <1>1
  <2>2. h = [i \in {0} |-> Body(h, i)]
    BY DEF Nil
  <2> HIDE DEF D, h, Body
  <2> QED
    BY <2>1, <2>2
<1> DEFINE Bad == {m \in 0..n : \A h : ~Upto(h, m)}
<1> HIDE DEF Upto
<1>5. Bad = {}
  <2>1. ASSUME NEW m \in Bad PROVE \E j \in Bad : j < m
    <3>1. m # 0
      BY <1>4, <2>1
    <3>2. m - 1 \in 0..n /\ m - 1 < m /\ m \in 1..n
      BY <1>1, <3>1
    <3>3. ASSUME NEW g, Upto(g, m - 1) PROVE FALSE
      BY <1>3, <3>2, <3>3
    <3> QED
      BY <3>2, <3>3
  <2>2. Bad \subseteq Nat
    BY <1>1
  <2> HIDE DEF Bad
  <2> QED
    BY <2>1, <2>2, Induction
<1>6. PICK h : Upto(h, n)
  BY <1>1, <1>5
<1>7. D(n) = 0..n
  BY <1>1
<1>8. Orders(t, h)
  BY <1>6, <1>7, Zenon DEF Upto, Orders, c, n
<1>9. PreOrder(t) = CHOOSE f : Orders(t, f)
  BY DEF PreOrder, Orders
<1> QED
  BY <1>8, <1>9

(* The order below a node: it, and the trees of its children. *)
LEMMA PreOrderAt ==
  ASSUME NEW t, IsTree(t), NEW i \in 0..t.n
  PROVE  /\ Ahead(t, Claimed(t, i)) = Each(Claimed(t, i), PreOrder(t))
         /\ PreOrder(t)[i] = <<i>> \o IF i = Nil THEN <<>> ELSE Ahead(t, Claimed(t, i))
  BY PreOrderDef DEF Orders, Ahead, Each

(* It is made of nodes of the tree. *)
LEMMA PreOrderType ==
  ASSUME NEW t, IsTree(t)
  PROVE  PreOrder(t) \in [0..t.n -> Seq(0..t.n)]
<1> DEFINE N == 0..t.n
           g == PreOrder(t)
           Good == {i \in 1..t.n : g[i] \in Seq(N)}
<1>1. t.n \in Nat /\ Nil \in N
  BY DEF IsTree, Nil
<1>2. g[Nil] \in Seq(N)
  <2>1. g[Nil] = <<Nil>> \o <<>>
    BY <1>1, PreOrderAt, Zenon
  <2> HIDE DEF N, g
  <2> QED
    BY <1>1, <2>1
<1>3. ASSUME NEW i \in 1..t.n, i + 1..t.n \subseteq Good PROVE i \in Good
  <2> DEFINE c == Claimed(t, i)
             A == {Nil} \cup (i + 1..t.n)
             h == [x \in A |-> g[x]]
  <2>1. /\ c \in Seq(A) /\ Len(c) \in Nat /\ DOMAIN c = 1..Len(c)
        /\ \A k \in DOMAIN c : c[k] \in A
    BY ClaimedIsLogical, LenProperties, ElementOfSeq DEF Lists
  <2>2. h \in [A -> Seq(N)]
    BY <1>2, <1>3
  <2> HIDE DEF N, c, A
  <2>3. Each(c, h) \in Seq(N)
    BY <2>1, <2>2, EachParts
  <2>4. Each(c, h) = Each(c, g)
    BY <2>1 DEF Each
  <2>5. i \in 0..t.n /\ i # Nil
    BY <1>1 DEF Nil
  <2>6. g[i] = <<i>> \o Each(c, g)
    BY <2>5, PreOrderAt, Zenon DEF c
  <2>7. i \in N
    BY <2>5 DEF N
  <2>8. <<i>> \in Seq(N)
    BY <2>7
  <2>9. g[i] \in Seq(N)
    BY <2>3, <2>4, <2>6, <2>8, ConcatProperties
  <2> QED
    BY <2>9
<1> HIDE DEF Good
<1>4. 1..t.n \subseteq Good
  BY <1>1, <1>3, DownInduction
<1>5. \A i \in N : g[i] \in Seq(N)
  <2>1. \A i \in N : i = Nil \/ i \in 1..t.n
    BY <1>1 DEF Nil
  <2> QED
    BY <1>2, <1>4, <2>1 DEF Good
<1>6. g = [i \in N |-> g[i]]
  BY PreOrderDef DEF Orders
<1> HIDE DEF N, g
<1>7. g \in [N -> Seq(N)]
  BY <1>5, <1>6, Zenon
<1> QED
  BY <1>7 DEF N, g

(* What is ahead is the order below each node to do. *)
LEMMA AheadIsEach == ASSUME NEW t, NEW s PROVE Ahead(t, s) = Each(s, PreOrder(t))
  BY DEF Ahead, Each

(* It is made of nodes of the tree. *)
LEMMA AheadType ==
  ASSUME NEW t, IsTree(t), NEW s \in Seq(0..t.n)
  PROVE  Ahead(t, s) \in Seq(0..t.n)
  BY AheadIsEach, PreOrderType, EachParts

(* What is ahead for two lists. *)
LEMMA AheadConcat ==
  ASSUME NEW t, IsTree(t), NEW a \in Seq(0..t.n), NEW b \in Seq(0..t.n)
  PROVE  Ahead(t, a \o b) = Ahead(t, a) \o Ahead(t, b)
<1> DEFINE N == 0..t.n
           f == PreOrder(t)
<1>1. f \in [N -> Seq(N)] /\ a \in Seq(N) /\ b \in Seq(N)
  BY PreOrderType
<1>2. Each(a \o b, f) = Each(a, f) \o Each(b, f)
  <2> HIDE DEF N, f
  <2> QED
    BY <1>1, EachConcat
<1> QED
  BY <1>2, AheadIsEach

(* One step of walk: the node to come to, and then what is below it. *)
LEMMA AheadStep ==
  ASSUME NEW t, IsTree(t), NEW s \in Seq(0..t.n), s # <<>>
  PROVE  /\ Head(s) \in 0..t.n /\ Tail(s) \in Seq(0..t.n)
         /\ Ahead(t, s) = PreOrder(t)[Head(s)] \o Ahead(t, Tail(s))
<1>1. Head(s) \in 0..t.n /\ Tail(s) \in Seq(0..t.n)
  BY HeadTailProperties
<1>2. s = <<Head(s)>> \o Tail(s)
  <2>1. Len(s) \in Nat /\ 1 \in 1..Len(s) /\ Len(s) \in 1..Len(s)
    BY EmptySeq
  <2>2. s = SubSeq(s, 1, Len(s)) /\ Tail(s) = SubSeq(s, 2, Len(s)) /\ Head(s) = s[1]
    BY SubSeqFull, TailIsSubSeq
  <2>3. SubSeq(s, 1, Len(s)) = <<s[1]>> \o SubSeq(s, 1 + 1, Len(s))
    BY <2>1, SubSeqRecursiveFirst
  <2> QED
    BY <2>2, <2>3
<1>3. <<Head(s)>> \in Seq(0..t.n)
  BY <1>1
<1>4. Ahead(t, <<Head(s)>> \o Tail(s)) = Ahead(t, <<Head(s)>>) \o Ahead(t, Tail(s))
  BY <1>1, <1>3, AheadConcat
<1> QED
  BY <1>1, <1>2, <1>4, AheadIsEach, EachOne

(* Every tree has a root. *)
LEMMA RootIsNode == ASSUME NEW t, IsTree(t) PROVE Root \in 1..t.n /\ Root \in 0..t.n
  BY DEF IsTree, Root

(* A stack of lists that is not empty: the innermost list, and the others. *)
LEMMA StackStep ==
  ASSUME NEW S, NEW s \in Seq(Seq(S)), s # <<>>
  PROVE  /\ Head(s) \in Seq(S) /\ Tail(s) \in Seq(Seq(S)) /\ FlattenSeq(Tail(s)) \in Seq(S)
         /\ FlattenSeq(s) = Head(s) \o FlattenSeq(Tail(s))
<1>1. Head(s) \in Seq(S) /\ Tail(s) \in Seq(Seq(S))
  BY HeadTailProperties
<1>2. s = <<Head(s)>> \o Tail(s)
  <2>1. Len(s) \in Nat /\ 1 \in 1..Len(s) /\ Len(s) \in 1..Len(s)
    BY EmptySeq
  <2>2. s = SubSeq(s, 1, Len(s)) /\ Tail(s) = SubSeq(s, 2, Len(s)) /\ Head(s) = s[1]
    BY SubSeqFull, TailIsSubSeq
  <2>3. SubSeq(s, 1, Len(s)) = <<s[1]>> \o SubSeq(s, 1 + 1, Len(s))
    BY <2>1, SubSeqRecursiveFirst
  <2> QED
    BY <2>2, <2>3
<1>3. FlattenSeq(Tail(s)) \in Seq(S)
  BY <1>1, FlattenType
<1>4. <<Head(s)>> \in Seq(Seq(S))
  BY <1>1
<1>5. FlattenSeq(<<Head(s)>> \o Tail(s)) = FlattenSeq(<<Head(s)>>) \o FlattenSeq(Tail(s))
  BY <1>1, <1>4, FlattenConcat
<1> QED
  BY <1>1, <1>2, <1>3, <1>5, FlattenOne

(* One more list on top. *)
LEMMA StackPush ==
  ASSUME NEW S, NEW s \in Seq(Seq(S)), NEW a \in Seq(S)
  PROVE  <<a>> \o s \in Seq(Seq(S)) /\ FlattenSeq(<<a>> \o s) = a \o FlattenSeq(s)
<1>1. <<a>> \in Seq(Seq(S))
  OBVIOUS
<1>2. <<a>> \o s \in Seq(Seq(S))
  BY <1>1, ConcatProperties
<1>3. FlattenSeq(<<a>> \o s) = FlattenSeq(<<a>>) \o FlattenSeq(s)
  BY <1>1, FlattenConcat
<1> QED
  BY <1>2, <1>3, FlattenOne

(* A walk begins with the whole tree ahead (metadata.go:194-196). *)
LEMMA InitWalkInv == WalkInit => WalkInv
<1> SUFFICES ASSUME WalkInit PROVE WalkInv
  OBVIOUS
<1>1. /\ IsTree(tree) /\ state = "walking" /\ loops = <<<<Root>>>> /\ visited = <<>>
      /\ enough = 0
  BY WalkAssumption DEF WalkInit
<1>2. Root \in 0..tree.n /\ <<Root>> \in Seq(0..tree.n)
  BY <1>1, RootIsNode
<1>3. loops \in Seq(Seq(0..tree.n)) /\ visited \in Seq(0..tree.n)
  BY <1>1, <1>2
<1>4. FlattenSeq(loops) = <<Root>>
  BY <1>1, FlattenOne
<1>5. Ahead(tree, <<Root>>) = PreOrder(tree)[Root] /\ PreOrder(tree)[Root] \in Seq(0..tree.n)
  BY <1>1, <1>2, AheadIsEach, EachOne, PreOrderType
<1>6. visited \o Ahead(tree, FlattenSeq(loops)) = PreOrder(tree)[Root]
  BY <1>1, <1>4, <1>5, ConcatEmptySeq
<1>7. IsPrefix(visited, PreOrder(tree)[Root])
  <2>1. visited \o Ahead(tree, <<Root>>) = PreOrder(tree)[Root]
    BY <1>4, <1>6
  <2> QED
    BY <1>3, <1>5, <2>1, PrefixOfConcat
<1>8. ~Contains(visited, Nil)
  BY <1>1 DEF Contains
<1> QED
  BY <1>1, <1>3, <1>6, <1>7, <1>8 DEF WalkInv, WalkVisitsLogicalTree

(* What a call of fn does to the nodes visited: they are followed by what is
   below the last one and by the trees of the others to come to. *)
LEMMA Visiting ==
  ASSUME WalkInv, state = "walking", NEW todo \in Seq(0..tree.n), todo = FlattenSeq(loops),
         todo # <<>>, visited' = Append(visited, Head(todo))
  PROVE  /\ Head(todo) \in 0..tree.n /\ Tail(todo) \in Seq(0..tree.n)
         /\ visited' \in Seq(0..tree.n)
         /\ Contains(visited', Nil) <=> Head(todo) = Nil
         /\ IsPrefix(visited', PreOrder(tree)[Root])
         /\ Head(todo) # Nil =>
              /\ Logical(tree, Head(todo)) \in Seq(0..tree.n)
              /\ visited' \o Ahead(tree, Logical(tree, Head(todo)) \o Tail(todo)) = PreOrder(tree)[Root]
<1> DEFINE t == tree
           S == 0..t.n
           i == Head(todo)
           rest == Ahead(t, Tail(todo))
           below == IF i = Nil THEN <<>> ELSE Ahead(t, Claimed(t, i))
           all == PreOrder(t)[Root]
<1>1. /\ IsTree(t) /\ visited \in Seq(S)
      /\ visited \o Ahead(t, todo) = all /\ ~Contains(visited, Nil)
  BY DEF WalkInv, WalkVisitsLogicalTree
<1>2. i \in S /\ Tail(todo) \in Seq(S) /\ Ahead(t, todo) = PreOrder(t)[i] \o rest
  BY <1>1, AheadStep
<1>3. rest \in Seq(S)
  BY <1>1, <1>2, AheadType
<1>4. i # Nil => Logical(t, i) = Claimed(t, i) /\ Claimed(t, i) \in Seq(S)
  <2> SUFFICES ASSUME i # Nil PROVE Logical(t, i) = Claimed(t, i) /\ Claimed(t, i) \in Seq(S)
    OBVIOUS
  <2>1. i \in 1..t.n
    BY <1>2 DEF Nil
  <2> HIDE DEF i, t
  <2> QED
    BY <1>1, <2>1, ClaimedIsLogical, ListMembers
<1>5. below \in Seq(S)
  <2>1. i # Nil => Ahead(t, Claimed(t, i)) \in Seq(S)
    BY <1>1, <1>4, AheadType
  <2> QED
    BY <2>1, EmptySeq
<1>6. PreOrder(t)[i] = <<i>> \o below
  BY <1>1, <1>2, PreOrderAt, Zenon
<1>7. i # Nil => Ahead(t, Logical(t, i) \o Tail(todo)) = below \o rest
  BY <1>1, <1>2, <1>4, AheadConcat
<1>8. /\ visited' \in Seq(S)
      /\ Contains(visited', Nil) <=> i = Nil
  BY <1>1, <1>2, AppendMembers
<1>9. visited' \o (below \o rest) = all
  <2> HIDE DEF S, t, i, rest, below, all
  <2>1. <<i>> \in Seq(S) /\ below \o rest \in Seq(S)
    BY <1>2, <1>3, <1>5, ConcatProperties
  <2>2. all = visited \o ((<<i>> \o below) \o rest)
    BY <1>1, <1>2, <1>6
  <2>3. (<<i>> \o below) \o rest = <<i>> \o (below \o rest)
    <3>1. \A x, y, z \in Seq(S) : (x \o y) \o z = x \o (y \o z)
      BY Assoc
    <3> QED
      BY <1>3, <1>5, <2>1, <3>1
  <2>4. visited' = Append(visited, i)
    BY DEF i
  <2>5. visited' \o (below \o rest) = visited \o (<<i>> \o (below \o rest))
    <3>1. visited \in Seq(S) /\ i \in S
      BY <1>1, <1>2
    <3>2. Append(visited, i) \o (below \o rest) = visited \o (<<i>> \o (below \o rest))
      BY <2>1, <3>1, AppendConcat
    <3> QED
      BY <2>4, <3>2
  <2> QED
    BY <2>2, <2>3, <2>5
<1>10. below \o rest \in Seq(S)
  BY <1>3, <1>5, ConcatProperties
<1>11. IsPrefix(visited', all)
  <2> HIDE DEF S, t, i, rest, below, all
  <2> QED
    BY <1>8, <1>9, <1>10, PrefixOfConcat
<1> HIDE DEF rest, below
<1> QED
  BY <1>2, <1>4, <1>7, <1>8, <1>9, <1>11

(* The next node that is yielded is the first of those to come to. *)
LEMMA Yielding ==
  ASSUME WalkInv, Yields
  PROVE  /\ state = "walking" /\ visited' = Append(visited, Head(Head(loops)))
         /\ visited' \in Seq(0..tree.n) /\ Len(visited') \in Nat
         /\ AfterYield \in Seq(Seq(0..tree.n))
         /\ Contains(visited', Nil) <=> Head(Head(loops)) = Nil
         /\ IsPrefix(visited', PreOrder(tree)[Root])
         /\ Head(Head(loops)) # Nil =>
              /\ AfterVisit \in Seq(Seq(0..tree.n))
              /\ visited' \o Ahead(tree, FlattenSeq(AfterVisit)) = PreOrder(tree)[Root]
<1> DEFINE S == 0..tree.n
           list == Head(loops)
           i == Head(list)
           rest == FlattenSeq(Tail(loops))
<1>1. /\ state = "walking" /\ loops \in Seq(Seq(S)) /\ loops # <<>> /\ list # <<>>
      /\ visited' = Append(visited, i) /\ AfterYield = <<Tail(list)>> \o Tail(loops)
  BY DEF WalkInv, Yields, AfterYield
<1>2. /\ list \in Seq(S) /\ Tail(loops) \in Seq(Seq(S)) /\ rest \in Seq(S)
      /\ FlattenSeq(loops) = list \o rest
  BY <1>1, StackStep
<1>3. i \in S /\ Tail(list) \in Seq(S)
  BY <1>1, <1>2, HeadTailProperties
<1> HIDE DEF S, list, i, rest
<1>4. /\ list \o rest \in Seq(S) /\ list \o rest # <<>>
      /\ Head(list \o rest) = i /\ Tail(list \o rest) = Tail(list) \o rest
  BY <1>1, <1>2, FirstOfList DEF i
<1>5. AfterYield \in Seq(Seq(S)) /\ FlattenSeq(AfterYield) = Tail(list) \o rest
  BY <1>1, <1>2, <1>3, StackPush DEF rest
<1>6. /\ visited' \in Seq(S)
      /\ Contains(visited', Nil) <=> i = Nil
      /\ IsPrefix(visited', PreOrder(tree)[Root])
      /\ i # Nil =>
           /\ Logical(tree, i) \in Seq(S)
           /\ visited' \o Ahead(tree, Logical(tree, i) \o (Tail(list) \o rest))
                = PreOrder(tree)[Root]
  <2>1. PICK todo \in Seq(S) : todo = list \o rest
    BY <1>4
  <2>2. /\ todo = FlattenSeq(loops) /\ todo # <<>> /\ visited' = Append(visited, Head(todo))
        /\ Head(todo) = i /\ Tail(todo) = Tail(list) \o rest
    BY <1>1, <1>2, <1>4, <2>1
  <2> QED
    BY <1>1, <2>1, <2>2, Visiting DEF S
<1>7. AfterVisit = <<Logical(tree, i)>> \o AfterYield
  BY DEF AfterVisit, i, list
<1>8. i # Nil => /\ AfterVisit \in Seq(Seq(S))
                 /\ visited' \o Ahead(tree, FlattenSeq(AfterVisit)) = PreOrder(tree)[Root]
  <2> SUFFICES ASSUME i # Nil
               PROVE  /\ AfterVisit \in Seq(Seq(S))
                      /\ visited' \o Ahead(tree, FlattenSeq(AfterVisit)) = PreOrder(tree)[Root]
    OBVIOUS
  <2>1. /\ AfterVisit \in Seq(Seq(S))
        /\ FlattenSeq(AfterVisit) = Logical(tree, i) \o (Tail(list) \o rest)
    BY <1>5, <1>6, <1>7, StackPush
  <2> QED
    BY <1>6, <2>1
<1>9. Len(visited') \in Nat
  BY <1>6, LenProperties
<1> USE DEF S, list, i
<1> QED
  BY <1>1, <1>5, <1>6, <1>8, <1>9

(* Every step of walk keeps what has been visited and what is ahead together
   (metadata.go:198-211). *)
LEMMA NextWalkInv == WalkInv /\ [WalkNext]_walkVars => WalkInv'
<1> SUFFICES ASSUME WalkInv, [WalkNext]_walkVars PROVE WalkInv'
  OBVIOUS
<1>1. CASE Stop
  <2>1. /\ Yields /\ state' = "stopping" /\ loops' = AfterYield /\ tree' = tree
        /\ enough' = Len(visited')
    BY <1>1 DEF Stop
  <2>2. /\ visited' \in Seq(0..tree.n) /\ IsPrefix(visited', PreOrder(tree)[Root])
        /\ AfterYield \in Seq(Seq(0..tree.n))
    BY <2>1, Yielding
  <2> QED
    BY <2>1, <2>2 DEF WalkInv, WalkVisitsLogicalTree
<1>2. CASE Visit
  <2>1. Yields /\ tree' = tree /\ enough' = enough
    BY <1>2 DEF Visit
  <2>2. /\ state = "walking" /\ visited' \in Seq(0..tree.n)
        /\ IsPrefix(visited', PreOrder(tree)[Root]) /\ enough = 0
    BY <2>1, Yielding DEF WalkInv
  <2>3. CASE Head(Head(loops)) = Nil
    <3>1. state' = "panicked" /\ loops' = loops
      BY <1>2, <2>3 DEF Visit
    <3> QED
      BY <2>1, <2>2, <3>1 DEF WalkInv, WalkVisitsLogicalTree
  <2>4. CASE Head(Head(loops)) # Nil
    <3>1. state' = "walking" /\ loops' = AfterVisit
      BY <1>2, <2>2, <2>4 DEF Visit
    <3>2. /\ ~Contains(visited', Nil) /\ loops' \in Seq(Seq(0..tree.n))
          /\ visited' \o Ahead(tree, FlattenSeq(loops')) = PreOrder(tree)[Root]
      BY <2>1, <2>4, <3>1, Yielding
    <3> QED
      BY <2>1, <2>2, <3>1, <3>2 DEF WalkInv, WalkVisitsLogicalTree
  <2> QED
    BY <2>3, <2>4
<1>3. CASE HandUp
  <2>1. /\ state' \in {"stopping", "stopped"} /\ loops # <<>> /\ loops' = Tail(loops)
        /\ UNCHANGED <<tree, visited, enough>>
    BY <1>3 DEF HandUp
  <2>2. loops' \in Seq(Seq(0..tree.n))
    BY <2>1, StackStep DEF WalkInv
  <2> QED
    BY <2>1, <2>2 DEF WalkInv, WalkVisitsLogicalTree
<1>4. CASE WalkReturns
  <2>1. /\ state = "walking" /\ loops # <<>> /\ Head(loops) = <<>> /\ loops' = Tail(loops)
        /\ UNCHANGED <<tree, visited, enough>>
        /\ state' = IF loops' = <<>> THEN "done" ELSE "walking"
    BY <1>4 DEF WalkReturns
  <2>2. /\ loops \in Seq(Seq(0..tree.n)) /\ visited \in Seq(0..tree.n)
        /\ visited \o Ahead(tree, FlattenSeq(loops)) = PreOrder(tree)[Root]
        /\ ~Contains(visited, Nil) /\ enough = 0 /\ IsTree(tree)
        /\ IsPrefix(visited, PreOrder(tree)[Root])
    BY <2>1 DEF WalkInv, WalkVisitsLogicalTree
  <2>3. loops' \in Seq(Seq(0..tree.n)) /\ FlattenSeq(loops) = FlattenSeq(loops')
    <3>1. /\ Tail(loops) \in Seq(Seq(0..tree.n)) /\ FlattenSeq(Tail(loops)) \in Seq(0..tree.n)
          /\ FlattenSeq(loops) = Head(loops) \o FlattenSeq(Tail(loops))
      BY <2>1, <2>2, StackStep
    <3> QED
      BY <2>1, <3>1, ConcatEmptySeq
  <2>4. ASSUME loops' = <<>> PROVE visited = PreOrder(tree)[Root]
    <3>1. Ahead(tree, FlattenSeq(loops)) = <<>>
      BY <2>3, <2>4, FlattenEmpty, AheadIsEach, EachEmpty
    <3> QED
      BY <2>2, <3>1, ConcatEmptySeq
  <2> QED
    BY <2>1, <2>2, <2>3, <2>4 DEF WalkInv, WalkVisitsLogicalTree
<1>5. CASE UNCHANGED walkVars
  BY <1>5 DEF WalkInv, WalkVisitsLogicalTree, walkVars
<1> QED
  BY <1>1, <1>2, <1>3, <1>4, <1>5 DEF WalkNext

(* What has been visited and what is ahead are the order below the root, all along
   (metadata.go:198-211). *)
THEOREM WalkInvariant == WalkSpec => []WalkInv
  BY InitWalkInv, NextWalkInv, PTL DEF WalkSpec

(* Walk visits the conceptual tree depth-first, whatever the tree: nothing is left
   out, repeated or out of order, and fn is not called again once it has returned
   false, however deep in the tree that was, nor after a nil child
   (metadata.go:190-211). *)
THEOREM WalkCorrect == WalkSpec => []WalkVisitsLogicalTree
<1>1. WalkInv => WalkVisitsLogicalTree
  BY DEF WalkInv
<1> QED
  BY <1>1, WalkInvariant, PTL
=============================================================================
