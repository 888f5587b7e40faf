-------------------------- MODULE ExecutionProofs --------------------------
(***************************************************************************)
(* That the composites return what their comments say, for any number of   *)
(* children and any history of ticks, and what Memorize, Sync and Any add. *)
(***************************************************************************)
EXTENDS ExecutionInv, TLAPS

(* The first of some positions. *)
LEMMA MinIs ==
  ASSUME NEW S, S \subseteq Nat, NEW m \in S, \A x \in S : m <= x
  PROVE  Min(S) = m
<1>1. Min(S) \in S /\ \A x \in S : Min(S) <= x
  BY DEF Min
<1>2. Min(S) <= m /\ m <= Min(S) /\ Min(S) \in Nat /\ m \in Nat
  BY <1>1
<1> QED
  BY <1>2

(* The parity of the positions of Switch. *)
LEMMA Parity ==
  ASSUME NEW i \in Nat
  PROVE  /\ i % 2 = 0 \/ i % 2 = 1
         /\ i % 2 = 0 <=> (i + 1) % 2 = 1
         /\ i % 2 = 1 <=> (i + 1) % 2 = 0
         /\ (i + 2) % 2 = i % 2
  OBVIOUS

(* What the loop returns at iteration p, having got there, is the outcome of
   the pass, whatever the children after it would have answered. *)
LEMMA OutcomeAt ==
  ASSUME kind \in Kinds, n \in Nat, NEW b \in [1..n -> Answers \cup {"none"}],
         NEW p \in 1..n, b[p] \in Answers, Returns(kind, n, p, b[p]),
         \A i \in 1..p - 1 : Passes(p, i, b[i])
  PROVE  Outcome(kind, n, b) = Returned(kind, b[p])
<1>1. CASE kind = "Sequence"
  <2> DEFINE S == {i \in 1..n : b[i] # "success"}
  <2>1. p \in S /\ \A i \in S : p <= i
    BY <1>1 DEF Passes, Returns, SequenceReturns
  <2>2. Min(S) = p
    <3>1. S \subseteq Nat
      OBVIOUS
    <3> HIDE DEF S
    <3> QED
      BY <2>1, <3>1, MinIs
  <2> QED
    BY <1>1, <2>1, <2>2 DEF Outcome, SequenceOutcome, First, Returned, Answers
<1>2. CASE kind = "Selector"
  <2> DEFINE S == {i \in 1..n : b[i] \notin {"failure", "invalid"}}
  <2>1. p \in S /\ \A i \in S : p <= i
    BY <1>2 DEF Passes, Returns, SelectorReturns, Answers
  <2>2. Min(S) = p
    <3>1. S \subseteq Nat
      OBVIOUS
    <3> HIDE DEF S
    <3> QED
      BY <2>1, <3>1, MinIs
  <2> QED
    BY <1>2, <2>1, <2>2 DEF Outcome, SelectorOutcome, First, Returned
<1>3. CASE kind = "All"
  <2> DEFINE S == {i \in 1..n : b[i] \notin {"success", "failure", "invalid"}}
  <2>1. p \in S /\ \A i \in S : p <= i
    BY <1>3 DEF Passes, Returns, AllReturns, Answers
  <2>2. Min(S) = p
    <3>1. S \subseteq Nat
      OBVIOUS
    <3> HIDE DEF S
    <3> QED
      BY <2>1, <3>1, MinIs
  <2> QED
    BY <1>3, <2>1, <2>2 DEF Outcome, AllOutcome, First, Returned
<1>4. CASE kind = "Switch"
  <2> DEFINE S == {i \in 1..n : i % 2 = 1 /\ (i = n \/ b[i] \notin {"failure", "invalid"})}
  <2>1. \A i \in 1..p - 1 : i % 2 = 1 =>
          IF p = i + 1 THEN b[i] = "success" ELSE b[i] \in {"failure", "invalid"}
    BY <1>4 DEF Passes
  <2>2. Returned(kind, b[p]) = b[p]
    BY <1>4 DEF Returned
  <2>3. CASE p % 2 = 1
    <3>1. p = n \/ b[p] \in {"error", "running"}
      BY <1>4, <2>3 DEF Returns, SwitchReturns, Statement
    <3>2. p \in S
      BY <2>3, <3>1
    <3>3. \A i \in S : p <= i
      BY <2>1, <2>3, Parity
    <3>4. Min(S) = p
      <4>1. S \subseteq Nat
        OBVIOUS
      <4> HIDE DEF S
      <4> QED
        BY <3>2, <3>3, <4>1, MinIs
    <3> QED
      BY <1>4, <2>2, <3>1, <3>2, <3>4 DEF Outcome, SwitchOutcome
  <2>4. CASE p % 2 = 0
    <3>1. p - 1 \in 1..p - 1 /\ (p - 1) % 2 = 1 /\ (p - 1) + 1 = p /\ p - 1 < n
      BY <2>4
    <3>2. b[p - 1] = "success"
      BY <2>1, <3>1
    <3>3. p - 1 \in S
      BY <3>1, <3>2
    <3>4. \A i \in S : p - 1 <= i
      BY <2>1
    <3>5. Min(S) = p - 1
      <4>1. S \subseteq Nat
        OBVIOUS
      <4> HIDE DEF S
      <4> QED
        BY <3>3, <3>4, <4>1, MinIs
    <3> QED
      BY <1>4, <2>2, <3>1, <3>2, <3>3, <3>5 DEF Outcome, SwitchOutcome
  <2> QED
    BY <2>3, <2>4, Parity
<1> QED
  BY <1>1, <1>2, <1>3, <1>4 DEF Kinds

(* And so is what is returned after the loop. *)
LEMMA OutcomeAfter ==
  ASSUME kind \in Kinds, n \in Nat, NEW b \in [1..n -> Answers \cup {"none"}],
         \A i \in 1..n : Passes(n + 1, i, b[i])
  PROVE  Outcome(kind, n, b) = AfterLoop(kind, \A i \in 1..n : b[i] = "success")
<1>1. CASE kind = "Sequence"
  BY <1>1 DEF Outcome, SequenceOutcome, AfterLoop, Passes, Returns, SequenceReturns
<1>2. CASE kind = "Selector"
  BY <1>2 DEF Outcome, SelectorOutcome, AfterLoop, Passes, Returns, SelectorReturns, Answers
<1>3. CASE kind = "All"
  BY <1>3 DEF Outcome, AllOutcome, AfterLoop, Passes, Returns, AllReturns, Answers
<1>4. CASE kind = "Switch"
  <2> DEFINE S == {i \in 1..n : i % 2 = 1 /\ (i = n \/ b[i] \notin {"failure", "invalid"})}
  <2>1. \A i \in 1..n : i % 2 = 1 =>
          IF n = i THEN b[i] = "success" ELSE b[i] \in {"failure", "invalid"}
    BY <1>4 DEF Passes
  <2>2. \A i \in S : i = n /\ b[i] = "success"
    BY <2>1
  <2>3. CASE S = {}
    BY <1>4, <2>3 DEF Outcome, SwitchOutcome, AfterLoop
  <2>4. CASE S # {}
    <3>1. n \in S /\ \A i \in S : n <= i
      BY <2>2, <2>4
    <3>2. Min(S) = n
      <4>1. S \subseteq Nat
        OBVIOUS
      <4> HIDE DEF S
      <4> QED
        BY <3>1, <4>1, MinIs
    <3> QED
      BY <1>4, <2>2, <2>4, <3>1, <3>2 DEF Outcome, SwitchOutcome, AfterLoop
  <2> QED
    BY <2>3, <2>4
<1> QED
  BY <1>1, <1>2, <1>3, <1>4 DEF Kinds

(* The children ticked are those on the path of the loop, and the one it ends
   with, if it does not end by itself: no others had to be. *)
LEMMA TicksOnPath ==
  ASSUME kind \in Kinds, n \in Nat, NEW b \in [1..n -> Answers \cup {"none"}],
         NEW p \in 1..n + 1, \A i \in 1..p - 1 : Passes(p, i, b[i]),
         p # n + 1 => b[p] \in Answers /\ Returns(kind, n, p, b[p]),
         \A i \in 1..n : b[i] # "none" <=> i = p \/ (i < p /\ (kind = "Switch" => i % 2 = 1))
  PROVE  {i \in 1..n : b[i] # "none"} = Ticks(kind, n, b)
<1> SUFFICES ASSUME NEW i \in 1..n
             PROVE  i \in Ticks(kind, n, b) <=>
                      i = p \/ (i < p /\ (kind = "Switch" => i % 2 = 1))
  BY DEF Ticks, SequenceTicks, SelectorTicks, AllTicks, SwitchTicks, Kinds
<1>1. CASE kind = "Sequence"
  <2>1. i \in Ticks(kind, n, b) <=> \A j \in 1..i - 1 : b[j] = "success"
    BY <1>1 DEF Ticks, SequenceTicks
  <2>2. \A j \in 1..p - 1 : b[j] = "success"
    BY <1>1 DEF Passes, Returns, SequenceReturns
  <2>3. i > p => p \in 1..i - 1 /\ b[p] # "success"
    BY <1>1 DEF Returns, SequenceReturns
  <2> QED
    BY <1>1, <2>1, <2>2, <2>3
<1>2. CASE kind = "Selector"
  <2>1. i \in Ticks(kind, n, b) <=> \A j \in 1..i - 1 : b[j] \in {"failure", "invalid"}
    BY <1>2 DEF Ticks, SelectorTicks
  <2>2. \A j \in 1..p - 1 : b[j] \in {"failure", "invalid"}
    BY <1>2 DEF Passes, Returns, SelectorReturns, Answers
  <2>3. i > p => p \in 1..i - 1 /\ b[p] \notin {"failure", "invalid"}
    BY <1>2 DEF Returns, SelectorReturns
  <2> QED
    BY <1>2, <2>1, <2>2, <2>3
<1>3. CASE kind = "All"
  <2>1. i \in Ticks(kind, n, b) <=>
          \A j \in 1..i - 1 : b[j] \in {"success", "failure", "invalid"}
    BY <1>3 DEF Ticks, AllTicks
  <2>2. \A j \in 1..p - 1 : b[j] \in {"success", "failure", "invalid"}
    BY <1>3 DEF Passes, Returns, AllReturns, Answers
  <2>3. i > p => p \in 1..i - 1 /\ b[p] \notin {"success", "failure", "invalid"}
    BY <1>3 DEF Returns, AllReturns
  <2> QED
    BY <1>3, <2>1, <2>2, <2>3
<1>4. CASE kind = "Switch"
  <2>1. i \in Ticks(kind, n, b) <=>
          /\ \A j \in 1..i - 2 : j % 2 = 1 => b[j] \in {"failure", "invalid"}
          /\ i % 2 = 0 => b[i - 1] = "success"
    BY <1>4 DEF Ticks, SwitchTicks
  <2>2. \A j \in 1..p - 1 : j % 2 = 1 =>
          IF p = j + 1 THEN b[j] = "success" ELSE b[j] \in {"failure", "invalid"}
    BY <1>4 DEF Passes
  <2>3. CASE i < p
    <3>1. \A j \in 1..i - 2 : j \in 1..p - 1 /\ p # j + 1
      BY <2>3
    <3>2. ASSUME i % 2 = 0 PROVE b[i - 1] # "success"
      <4>1. i - 1 \in 1..p - 1 /\ (i - 1) % 2 = 1 /\ p # (i - 1) + 1
        BY <2>3, <3>2
      <4> QED
        BY <2>2, <4>1
    <3> QED
      BY <1>4, <2>1, <2>2, <2>3, <3>1, <3>2, Parity
  <2>4. CASE i = p
    <3>1. \A j \in 1..i - 2 : j \in 1..p - 1 /\ p # j + 1
      BY <2>4
    <3>2. ASSUME i % 2 = 0 PROVE b[i - 1] = "success"
      <4>1. i - 1 \in 1..p - 1 /\ (i - 1) % 2 = 1 /\ p = (i - 1) + 1
        BY <2>4, <3>2
      <4> QED
        BY <2>2, <4>1
    <3> QED
      BY <2>1, <2>2, <2>4, <3>1, <3>2
  <2>5. CASE i > p
    <3>1. b[p] \in Answers /\ (p % 2 = 0 \/ b[p] \in {"error", "running"})
      BY <1>4, <2>5 DEF Returns, SwitchReturns, Statement
    <3>2. CASE p % 2 = 0
      <4>1. p - 1 \in 1..i - 2 /\ (p - 1) % 2 = 1 /\ p - 1 \in 1..p - 1 /\ p = (p - 1) + 1
        BY <2>5, <3>2
      <4>2. b[p - 1] = "success"
        BY <2>2, <4>1
      <4> QED
        BY <2>1, <2>5, <4>1, <4>2
    <3>3. CASE p % 2 = 1 /\ i = p + 1
      <4>1. i % 2 = 0 /\ i - 1 = p
        BY <3>3
      <4> QED
        BY <2>1, <2>5, <3>1, <3>3, <4>1
    <3>4. CASE p % 2 = 1 /\ i # p + 1
      <4>1. p \in 1..i - 2
        BY <2>5, <3>4
      <4> QED
        BY <2>1, <2>5, <3>1, <3>4, <4>1
    <3> QED
      BY <3>2, <3>3, <3>4, Parity
  <2> QED
    BY <2>3, <2>4, <2>5
<1> QED
  BY <1>1, <1>2, <1>3, <1>4 DEF Kinds

(* An iteration that does not return takes the loop on to the next. *)
LEMMA Advance ==
  ASSUME kind \in Kinds, n \in Nat, NEW p \in 1..n, NEW b,
         \A i \in 1..p - 1 : Passes(p, i, b[i]),
         b[p] \in Answers, ~Returns(kind, n, p, b[p])
  PROVE  /\ Following(kind, p, b[p]) \in p + 1..n + 1
         /\ \A i \in 1..Following(kind, p, b[p]) - 1 : Passes(Following(kind, p, b[p]), i, b[i])
         /\ kind = "All" => Following(kind, p, b[p]) = p + 1
<1> DEFINE q == Following(kind, p, b[p])
<1>1. CASE kind # "Switch"
  <2>1. q = p + 1
    BY <1>1 DEF Following
  <2>2. \A i \in 1..p : Passes(q, i, b[i])
    BY <1>1 DEF Passes
  <2> QED
    BY <2>1, <2>2
<1>2. CASE kind = "Switch"
  <2>1. p % 2 = 1 /\ p < n /\ b[p] \notin {"error", "running"}
    BY <1>2, Parity DEF Returns, SwitchReturns, Statement
  <2>2. \A i \in 1..p - 1 : i % 2 = 1 => p # i + 1 /\ b[i] \in {"failure", "invalid"}
    BY <1>2, <2>1, Parity DEF Passes
  <2>3. q = IF b[p] = "success" THEN p + 1 ELSE p + 2
    BY <1>2 DEF Following
  <2>4. q \in p + 1..n + 1
    BY <2>1, <2>3
  <2>5. ASSUME NEW i \in 1..q - 1, i % 2 = 1
        PROVE  IF q = i + 1 THEN b[i] = "success" ELSE b[i] \in {"failure", "invalid"}
    <3>1. CASE i < p
      <4>1. i \in 1..p - 1 /\ q # i + 1
        BY <2>3, <3>1
      <4> QED
        BY <2>2, <2>5, <4>1
    <3>2. CASE i = p
      BY <2>1, <2>3, <3>2 DEF Answers
    <3>3. CASE i > p
      <4>1. i = p + 1
        BY <2>3, <3>3
      <4> QED
        BY <2>1, <2>5, <4>1, Parity
    <3> QED
      BY <3>1, <3>2, <3>3
  <2> QED
    BY <1>2, <2>4, <2>5 DEF Passes
<1> QED
  BY <1>1, <1>2

-----------------------------------------------------------------------------
(* The order of a tick has every child once. *)
LEMMA OrderType ==
  ASSUME TypeOK
  PROVE  /\ n \in Nat
         /\ order \in [Children -> Children]
         /\ \A i, j \in Children : order[i] = order[j] => i = j
  BY ExecutionAssumption DEF TypeOK, Permuted, Injection, IsInjective

(* The children before the one that is ticked are others. *)
LEMMA Before ==
  ASSUME TypeOK, pos \in Children, NEW i \in 1..pos - 1
  PROVE  i \in Children /\ order[i] \in Children /\ order[i] # order[pos]
<1>1. i \in Children /\ i # pos
  BY OrderType DEF Children
<1> QED
  BY <1>1, OrderType

(* The answer of a child either makes the composite return or moves the loop
   on. *)
LEMMA AnswerStep ==
  ASSUME TypeOK, pos \in Children, NEW c \in Children, NEW a \in Answers,
         NEW succeeded \in BOOLEAN, Answer(c, a, succeeded)
  PROVE  /\ shape' = shape /\ order' = order /\ stuck' = stuck
         /\ answered' = [answered EXCEPT ![c] = a]
         /\ answered' \in [Children -> Answers \cup {"none"}]
         /\ pos' \in 0..n + 1 /\ ok' \in BOOLEAN /\ started' \in BOOLEAN
         /\ success' \in BOOLEAN /\ result' \in Answers \cup {"none"} /\ runner' \in 0..n
<1>1. n \in Nat /\ pos \in 1..n /\ kind \in Kinds
  BY OrderType DEF TypeOK, Children
<1>2. shape' = shape /\ order' = order /\ stuck' = stuck
  BY DEF Answer, shape
<1>3. /\ answered' = [answered EXCEPT ![c] = a]
      /\ answered' \in [Children -> Answers \cup {"none"}]
  BY DEF Answer, TypeOK
<1>4. CASE Returns(kind, n, pos, a)
  <2>1. Return(Returned(kind, a), succeeded) /\ runner' \in {c, 0} /\ ok' = ok
    BY <1>4 DEF Answer
  <2>2. Returned(kind, a) \in Answers
    BY DEF Returned, Answers
  <2>3. result' \in Answers
    BY <2>1, <2>2 DEF Return, Overridden, NotReturns, Answers
  <2> QED
    BY <1>1, <1>2, <1>3, <2>1, <2>3 DEF Return, GoesOn, Flag, Children, TypeOK
<1>5. CASE ~Returns(kind, n, pos, a)
  <2>1. /\ pos' = Following(kind, pos, a) /\ ok' = (ok /\ a = "success")
        /\ success' = succeeded /\ UNCHANGED <<started, result, runner>>
    BY <1>5 DEF Answer
  <2>2. pos' \in 0..n + 1
    <3>1. kind = "Switch" => pos # n
      BY <1>5 DEF Returns, SwitchReturns, Statement
    <3> QED
      BY <1>1, <2>1, <3>1 DEF Following
  <2> QED
    BY <1>2, <1>3, <2>1, <2>2 DEF TypeOK
<1> QED
  BY <1>4, <1>5

(* Every variable has the type of what it models, to begin with and after every
   step. *)
LEMMA InitTypes == Init => TypeOK
<1> SUFFICES ASSUME Init PROVE TypeOK
  OBVIOUS
<1>1. n \in Nat /\ n \in 0..MaxChildren
  BY ExecutionAssumption DEF Init
<1>2. order \in Permuted
  BY DEF Init, Permuted, Injection, IsInjective
<1>3. Nothing \in [Children -> {"none"}]
  BY DEF Nothing
<1>4. /\ override \in [Children -> (Answers \ {"running"}) \cup {"none"}]
      /\ statuses \in [Children -> (Answers \ {"error"}) \cup {"none"}]
      /\ answered \in [Children -> Answers \cup {"none"}]
      /\ final \in [Children -> (Answers \ {"running"}) \cup {"none"}]
  BY <1>3 DEF Init
<1>5. pos \in 0..n + 1 /\ runner \in 0..n
  BY <1>1 DEF Init
<1> QED
  BY <1>1, <1>2, <1>4, <1>5 DEF Init, TypeOK

LEMMA NextTypes == TypeOK /\ [Next]_vars => TypeOK'
<1> SUFFICES ASSUME TypeOK, [Next]_vars PROVE TypeOK'
  OBVIOUS
<1>1. CASE Begin
  <2>1. n \in Nat /\ shape' = shape /\ Children' = Children /\ Permuted' = Permuted
    BY <1>1, OrderType DEF Begin, shape, Children, Permuted
  <2>2. order' \in Permuted /\ pos' = 1 /\ Nothing \in [Children -> {"none"}]
    BY <1>1 DEF Begin, TypeOK, Nothing
  <2>3. /\ override' \in [Children -> (Answers \ {"running"}) \cup {"none"}]
        /\ final' \in [Children -> (Answers \ {"running"}) \cup {"none"}]
        /\ answered' \in [Children -> Answers \cup {"none"}]
    BY <1>1, <2>2 DEF Begin, Forget, Cache, TypeOK
  <2>4. won' \subseteq Children /\ real' \subseteq Children /\ stuck' \in BOOLEAN
    BY <1>1 DEF Begin, Forget, TypeOK
  <2>5. pos' \in 0..n + 1
    BY <2>1, <2>2
  <2> QED
    BY <1>1, <2>1, <2>2, <2>3, <2>4, <2>5 DEF Begin, Forget, TypeOK, shape
<1>2. CASE TickChild
  <2> DEFINE c == order[pos]
  <2>1. pos \in Children /\ c \in Children
    BY <1>2, OrderType DEF TickChild
  <2> HIDE DEF c
  <2>2. CASE NilTick(c)
    <3>1. Answer(c, "error", success) /\ "error" \in Answers /\ success \in BOOLEAN
      BY <2>2 DEF NilTick, Answers, TypeOK
    <3> QED
      BY <2>1, <2>2, <3>1, AnswerStep DEF NilTick, TypeOK, shape, Children, Permuted, Answers
  <2>3. CASE Repeat(c)
    <3>1. Remembered(c) \in Answers
      BY <2>1, <2>3 DEF Repeat, Enabled, Remembered, TypeOK, Answers
    <3>2. Answer(c, Remembered(c), success) /\ success \in BOOLEAN
      BY <2>3 DEF Repeat, TypeOK
    <3> QED
      BY <2>1, <2>3, <3>1, <3>2, AnswerStep DEF Repeat, TypeOK, shape, Children, Permuted
  <2>4. ASSUME NEW a \in Answers, NEW s \in ComesWith(a), OwnTick(c, a, s) PROVE TypeOK'
    <3>1. /\ Answer(c, a, success \/ (wrap = "any" /\ a = "success"))
          /\ (success \/ (wrap = "any" /\ a = "success")) \in BOOLEAN
      BY <2>4 DEF OwnTick, TypeOK
    <3>2. Recorded(c, a, s) \in Answers \ {"error"}
      BY <2>4 DEF Recorded, ComesWith, Answers
    <3>3. lost' \subseteq Children
      BY <2>1, <2>4 DEF OwnTick, TypeOK
    <3> QED
      BY <2>1, <2>4, <3>1, <3>2, <3>3, AnswerStep DEF OwnTick, TypeOK, shape, Children, Permuted
  <2> QED
    BY <1>2, <2>2, <2>3, <2>4 DEF TickChild, c
<1>3. CASE EndLoop
  <2>1. AfterLoop(kind, ok) \in Answers
    BY DEF AfterLoop, Answers, TypeOK, Kinds
  <2>2. result' \in Answers
    BY <1>3, <2>1 DEF EndLoop, Return, Overridden, NotReturns, Answers
  <2>3. /\ UNCHANGED <<shape, order, ok, override, statuses, answered, final, won, real, lost>>
        /\ stuck' = stuck /\ pos' = 0 /\ runner' = 0 /\ n \in Nat
    BY <1>3, OrderType DEF EndLoop, Return
  <2>4. started' \in BOOLEAN /\ success' \in BOOLEAN
    BY <1>3 DEF EndLoop, Return, GoesOn, Flag, TypeOK
  <2>5. Children' = Children /\ Permuted' = Permuted /\ 0 \in 0..n + 1 /\ 0 \in 0..n
    BY <2>3 DEF shape, Children, Permuted
  <2> QED
    BY <2>2, <2>3, <2>4, <2>5 DEF TypeOK, shape
<1>4. CASE UNCHANGED vars
  BY <1>4 DEF vars, shape, loop, memory, history, TypeOK, Children, Permuted
<1> QED
  BY <1>1, <1>2, <1>3, <1>4 DEF Next

-----------------------------------------------------------------------------
(* What takes the loop from one iteration to the next takes d, in which the
   answers of the children so far are those in b, with it. *)
LEMMA CoverStep ==
  ASSUME TypeOK, pos \in Children, NEW a \in Answers, ~Returns(kind, n, pos, a),
         NEW b, Covers(b),
         NEW d, d[order[pos]] = a, \A i \in 1..pos - 1 : d[order[i]] = b[order[i]],
         NEW p, p = Following(kind, pos, a)
  PROVE  /\ p \in pos + 1..n + 1
         /\ \A i \in 1..p - 1 : Passes(p, i, d[order[i]])
         /\ kind = "All" => (ok /\ a = "success" <=> \A i \in 1..p - 1 : d[order[i]] = "success")
<1> DEFINE e == [i \in Children |-> d[order[i]]]
<1>1. n \in Nat /\ pos \in 1..n /\ kind \in Kinds /\ Children = 1..n
  BY OrderType DEF TypeOK, Children
<1>2. e[pos] = a /\ \A i \in 1..pos - 1 : e[i] = b[order[i]]
  BY <1>1
<1>3. \A i \in 1..pos - 1 : Passes(pos, i, e[i])
  BY <1>2 DEF Covers, Path
<1>4. \A i \in 1..n : e[i] = d[order[i]]
  BY <1>1
<1> HIDE DEF e
<1>5. /\ p \in pos + 1..n + 1
      /\ \A i \in 1..p - 1 : Passes(p, i, e[i])
      /\ kind = "All" => p = pos + 1
  BY <1>1, <1>2, <1>3, Advance
<1>6. \A i \in 1..p - 1 : e[i] = d[order[i]]
  BY <1>1, <1>4, <1>5
<1>7. ASSUME kind = "All"
      PROVE  ok /\ a = "success" <=> \A i \in 1..p - 1 : e[i] = "success"
  <2>1. ok <=> \A i \in 1..pos - 1 : e[i] = "success"
    BY <1>2, <1>7 DEF Covers
  <2>2. \A i \in 1..p - 1 : i \in 1..pos - 1 \/ i = pos
    BY <1>1, <1>5, <1>7
  <2>3. 1..pos - 1 \subseteq 1..p - 1 /\ pos \in 1..p - 1
    BY <1>1, <1>5
  <2> QED
    BY <1>2, <2>1, <2>2, <2>3
<1> QED
  BY <1>5, <1>6, <1>7

(* And where the loop ends, d tells what the composite returns. *)
LEMMA CoverReturn ==
  ASSUME TypeOK, pos \in Children, NEW a \in Answers, Returns(kind, n, pos, a),
         NEW b, Covers(b),
         NEW e \in [Children -> Answers \cup {"none"}],
         e[pos] = a, \A i \in 1..pos - 1 : e[i] = b[order[i]]
  PROVE  Outcome(kind, n, e) = Returned(kind, a)
<1>1. n \in Nat /\ pos \in 1..n /\ kind \in Kinds /\ Children = 1..n
  BY OrderType DEF TypeOK, Children
<1>2. e \in [1..n -> Answers \cup {"none"}]
  BY <1>1
<1>3. \A i \in 1..pos - 1 : Passes(pos, i, e[i])
  BY DEF Covers, Path
<1> QED
  BY <1>1, <1>2, <1>3, OutcomeAt

(* So it does if the loop ends without a return. *)
LEMMA CoverEnd ==
  ASSUME TypeOK, pos > n, NEW b, Covers(b),
         NEW e \in [Children -> Answers \cup {"none"}],
         \A i \in Children : e[i] = b[order[i]]
  PROVE  Outcome(kind, n, e) = AfterLoop(kind, ok)
<1>1. n \in Nat /\ pos = n + 1 /\ kind \in Kinds /\ Children = 1..n /\ ok \in BOOLEAN
  BY OrderType DEF TypeOK, Children
<1>2. e \in [1..n -> Answers \cup {"none"}]
  BY <1>1
<1>3. \A i \in 1..n : Passes(n + 1, i, e[i])
  BY <1>1 DEF Covers, Path
<1>4. kind = "All" => (ok <=> \A i \in 1..n : e[i] = "success")
  BY <1>1 DEF Covers
<1>5. Outcome(kind, n, e) = AfterLoop(kind, \A i \in 1..n : e[i] = "success")
  BY <1>1, <1>2, <1>3, OutcomeAfter
<1> QED
  BY <1>4, <1>5 DEF AfterLoop

(* In both cases the children ticked are those that had to be. *)
LEMMA CoverTicks ==
  ASSUME TypeOK, pos > 0, NEW b, Covers(b),
         NEW e \in [Children -> Answers \cup {"none"}],
         \A i \in 1..pos - 1 : i \in Children => e[i] = b[order[i]],
         pos \in Children => e[pos] \in Answers /\ Returns(kind, n, pos, e[pos]),
         \A i \in Children :
           e[i] # "none" <=> i = pos \/ (i < pos /\ (kind = "Switch" => i % 2 = 1))
  PROVE  TickedIn(e) = Ticks(kind, n, e)
<1>1. n \in Nat /\ pos \in 1..n + 1 /\ kind \in Kinds /\ Children = 1..n
  BY OrderType DEF TypeOK, Children
<1>2. e \in [1..n -> Answers \cup {"none"}]
  BY <1>1
<1>3. \A i \in 1..pos - 1 : Passes(pos, i, e[i])
  BY <1>1 DEF Covers, Path
<1>4. pos # n + 1 => e[pos] \in Answers /\ Returns(kind, n, pos, e[pos])
  BY <1>1
<1> QED
  BY <1>1, <1>2, <1>3, <1>4, TicksOnPath DEF TickedIn

(* Whatever the wrapped child does, it has an answer in the end. *)
LEMMA Ticked ==
  ASSUME TypeOK, TickChild
  PROVE  /\ pos \in Children /\ order[pos] \in Children
         /\ \E a \in Answers, s \in BOOLEAN : Answer(order[pos], a, s)
<1>1. pos \in Children /\ order[pos] \in Children
  BY OrderType DEF TickChild
<1>2. PICK c \in Children :
        /\ c = order[pos]
        /\ \/ NilTick(c) \/ Repeat(c)
           \/ \E a \in Answers : \E s \in ComesWith(a) : OwnTick(c, a, s)
  BY <1>1 DEF TickChild
<1>3. ASSUME NilTick(c) PROVE \E a \in Answers, s \in BOOLEAN : Answer(c, a, s)
  <2>1. Answer(c, "error", success) /\ "error" \in Answers /\ success \in BOOLEAN
    BY <1>3 DEF NilTick, TypeOK, Answers
  <2> QED
    BY <2>1
<1>4. ASSUME Repeat(c) PROVE \E a \in Answers, s \in BOOLEAN : Answer(c, a, s)
  <2>1. Remembered(c) \in Answers
    BY <1>4 DEF Repeat, Enabled, Remembered, TypeOK, Answers
  <2> QED
    <3>1. Answer(c, Remembered(c), success) /\ success \in BOOLEAN
      BY <1>4 DEF Repeat, TypeOK
    <3> QED
      BY <2>1, <3>1
<1>5. ASSUME \E a \in Answers : \E s \in ComesWith(a) : OwnTick(c, a, s)
      PROVE  \E a \in Answers, s \in BOOLEAN : Answer(c, a, s)
  <2>1. PICK a \in Answers : \E s \in ComesWith(a) : OwnTick(c, a, s)
    BY <1>5
  <2>2. (success \/ (wrap = "any" /\ a = "success")) \in BOOLEAN
    BY DEF TypeOK
  <2>3. Answer(c, a, success \/ (wrap = "any" /\ a = "success"))
    BY <2>1 DEF OwnTick
  <2> QED
    BY <2>2, <2>3
<1>6. \E a \in Answers, s \in BOOLEAN : Answer(c, a, s)
  BY <1>2, <1>3, <1>4, <1>5
<1> QED
  BY <1>1, <1>2, <1>6

(* A tick is the pass that the comments of the four functions describe. *)
LEMMA LoopStep == TypeOK /\ LoopInv /\ [Next]_vars => LoopInv'
<1> SUFFICES ASSUME TypeOK, LoopInv, [Next]_vars PROVE LoopInv'
  OBVIOUS
<1>1. CASE Begin
  <2>1. pos' = 1 /\ ok' = TRUE /\ answered' = Nothing /\ shape' = shape
    BY <1>1 DEF Begin, Forget
  <2>2. \A i \in Children : answered'[order'[i]] = "none"
    <3>1. order' \in [Children -> Children]
      BY <1>1, OrderType DEF Begin, Permuted, Injection
    <3> QED
      BY <2>1, <3>1 DEF Nothing
  <2>3. Covers(answered)'
    BY <2>1 DEF Covers, Path
  <2> QED
    BY <2>1, <2>2, <2>3, OrderType DEF LoopInv, shape, Children
<1>2. CASE TickChild
  <2>1. PICK a \in Answers, s \in BOOLEAN : Answer(order[pos], a, s)
    BY <1>2, Ticked
  <2>2. /\ pos \in Children /\ order[pos] \in Children /\ Covers(answered)
        /\ \A i \in Children :
             answered[order[i]] # "none" <=> i < pos /\ (kind = "Switch" => i % 2 = 1)
    BY <1>2, Ticked, OrderType DEF LoopInv, Children
  <2>3. /\ shape' = shape /\ order' = order /\ answered' = [answered EXCEPT ![order[pos]] = a]
    BY <2>1, <2>2, AnswerStep
  <2>4. CASE Returns(kind, n, pos, a)
    BY <2>1, <2>4 DEF Answer, Return, LoopInv
  <2>5. CASE ~Returns(kind, n, pos, a)
    <3>1. pos' = Following(kind, pos, a) /\ ok' = (ok /\ a = "success")
      BY <2>1, <2>5 DEF Answer
    <3>2. answered'[order[pos]] = a
      BY <2>2, <2>3 DEF TypeOK
    <3>3. \A i \in 1..pos - 1 : answered'[order[i]] = answered[order[i]]
      BY <2>2, <2>3, Before DEF TypeOK
    <3>4. /\ \A i \in 1..pos' - 1 : Passes(pos', i, answered'[order[i]])
          /\ kind = "All" =>
               (ok /\ a = "success" <=> \A i \in 1..pos' - 1 : answered'[order[i]] = "success")
      BY <2>2, <2>5, <3>1, <3>2, <3>3, CoverStep
    <3>5. Covers(answered)'
      BY <2>3, <3>1, <3>4 DEF Covers, Path, Passes, shape
    <3>6. ASSUME NEW i \in Children
          PROVE  answered'[order[i]] # "none" <=> i < pos' /\ (kind = "Switch" => i % 2 = 1)
      <4>1. answered'[order[i]] # "none" <=> i = pos \/ answered[order[i]] # "none"
        <5>1. i # pos => order[i] \in Children /\ order[i] # order[pos]
          BY <2>2, OrderType
        <5> QED
          BY <2>3, <3>2, <5>1 DEF TypeOK, Answers
      <4>2. n \in Nat /\ pos \in 1..n /\ i \in 1..n
        BY <2>2, OrderType DEF Children
      <4>3. kind = "Switch" => pos % 2 = 1
        BY <2>5, <4>2, Parity DEF Returns, SwitchReturns, Statement
      <4>4. pos' \in {pos + 1, pos + 2} /\ (kind # "Switch" => pos' = pos + 1)
        BY <3>1 DEF Following
      <4> QED
        BY <2>2, <4>1, <4>2, <4>3, <4>4, Parity
    <3> QED
      BY <2>3, <3>5, <3>6 DEF LoopInv, shape, Children
  <2> QED
    BY <2>4, <2>5
<1>3. CASE EndLoop
  BY <1>3 DEF EndLoop, Return, LoopInv
<1>4. CASE UNCHANGED vars
  BY <1>4 DEF vars, shape, loop, memory, history, LoopInv, Covers, Path, Passes, Children
<1> QED
  BY <1>1, <1>2, <1>3, <1>4 DEF Next

(* What a tick returns is the outcome of its answers, under every wrapper. *)
LEMMA OutcomeStep ==
  TypeOK /\ LoopInv /\ OutcomeOfTick /\ [Next]_vars => OutcomeOfTick'
<1> SUFFICES ASSUME TypeOK, LoopInv, OutcomeOfTick, [Next]_vars PROVE OutcomeOfTick'
  OBVIOUS
<1>1. ASSUME NEW v \in Answers, NEW s \in BOOLEAN, UNCHANGED <<shape, order>>,
             result' = Overridden(v, s), NEW e, e = InOrder(answered)',
             Outcome(kind, n, e) = v, TickedIn(e) = Ticks(kind, n, e)
      PROVE  OutcomeOfTick'
  <2>1. /\ Outcome(kind, n, InOrder(answered))' = v
        /\ (TickedIn(InOrder(answered)) = Ticks(kind, n, InOrder(answered)))'
    BY <1>1 DEF shape, TickedIn, Children
  <2>2. NotReturns(v) = Inverted[v]
    BY DEF NotReturns, Inverted, Answers
  <2> QED
    BY <1>1, <2>1, <2>2 DEF OutcomeOfTick, Overridden, shape
<1>2. CASE Begin
  BY <1>2 DEF Begin, OutcomeOfTick, Returning
<1>3. CASE TickChild
  <2>1. PICK a \in Answers, s \in BOOLEAN : Answer(order[pos], a, s)
    BY <1>3, Ticked
  <2>2. /\ pos \in Children /\ pos > 0 /\ order[pos] \in Children /\ Covers(answered)
        /\ \A i \in Children :
             answered[order[i]] # "none" <=> i < pos /\ (kind = "Switch" => i % 2 = 1)
    BY <1>3, Ticked, OrderType DEF LoopInv, Children
  <2>3. /\ shape' = shape /\ order' = order /\ answered' = [answered EXCEPT ![order[pos]] = a]
        /\ answered' \in [Children -> Answers \cup {"none"}]
    BY <2>1, <2>2, AnswerStep
  <2>4. CASE Returns(kind, n, pos, a)
    <3>1. PICK e : e = InOrder(answered)'
      OBVIOUS
    <3>2. e = [i \in Children |-> answered'[order[i]]]
      BY <2>3, <3>1 DEF InOrder, shape, Children
    <3>3. e \in [Children -> Answers \cup {"none"}] /\ e[pos] = a
      BY <2>2, <2>3, <3>2, OrderType DEF TypeOK
    <3>4. \A i \in 1..pos - 1 : e[i] = answered[order[i]]
      BY <2>2, <2>3, <3>2, Before DEF TypeOK
    <3>5. Outcome(kind, n, e) = Returned(kind, a)
      BY <2>2, <2>4, <3>3, <3>4, CoverReturn
    <3>6. result' = Overridden(Returned(kind, a), s) /\ Returned(kind, a) \in Answers
      BY <2>1, <2>4 DEF Answer, Return, Returned, Answers
    <3>7. \A i \in Children :
            e[i] # "none" <=> i = pos \/ (i < pos /\ (kind = "Switch" => i % 2 = 1))
      <4>1. \A i \in Children : i # pos => order[i] \in Children /\ order[i] # order[pos]
        BY <2>2, OrderType
      <4> QED
        BY <2>2, <2>3, <3>2, <3>3, <4>1 DEF TypeOK, Answers
    <3>8. TickedIn(e) = Ticks(kind, n, e)
      BY <2>2, <2>4, <3>3, <3>4, <3>7, CoverTicks
    <3> QED
      BY <1>1, <2>3, <3>1, <3>5, <3>6, <3>8
  <2>5. CASE ~Returns(kind, n, pos, a)
    <3>1. pos' > 0
      BY <2>1, <2>2, <2>5, OrderType DEF Answer, Following, Children
    <3> QED
      BY <3>1 DEF OutcomeOfTick, Returning
  <2> QED
    BY <2>4, <2>5
<1>4. CASE EndLoop
  <2>1. /\ Covers(answered) /\ pos = n + 1 /\ n \in Nat
        /\ \A i \in Children :
             answered[order[i]] # "none" <=> i < pos /\ (kind = "Switch" => i % 2 = 1)
    BY <1>4, OrderType DEF EndLoop, LoopInv, TypeOK
  <2>2. answered' = answered /\ UNCHANGED <<shape, order>>
    BY <1>4 DEF EndLoop
  <2>3. PICK e : e = InOrder(answered)'
    OBVIOUS
  <2>4. e = [i \in Children |-> answered[order[i]]]
    BY <2>2, <2>3 DEF InOrder, shape, Children
  <2>5. e \in [Children -> Answers \cup {"none"}] /\ pos > n
    BY <1>4, <2>4, OrderType DEF TypeOK, EndLoop
  <2>6. \A i \in Children : e[i] = answered[order[i]]
    BY <2>4
  <2>7. Outcome(kind, n, e) = AfterLoop(kind, ok)
    BY <2>1, <2>5, <2>6, CoverEnd
  <2>8. TickedIn(e) = Ticks(kind, n, e)
    <3>1. \A i \in Children : i # pos /\ i \in 1..pos - 1
      BY <2>1 DEF Children
    <3> QED
      BY <2>1, <2>5, <2>6, <3>1, CoverTicks
  <2>9. AfterLoop(kind, ok) \in Answers /\ success \in BOOLEAN
    BY DEF AfterLoop, Answers, TypeOK, Kinds
  <2>10. result' = Overridden(AfterLoop(kind, ok), success)
    BY <1>4 DEF EndLoop, Return
  <2> QED
    BY <1>1, <2>2, <2>3, <2>7, <2>8, <2>9, <2>10
<1>5. CASE UNCHANGED vars
  BY <1>5 DEF vars, shape, loop, memory, history, OutcomeOfTick, Returning, InOrder, TickedIn,
    Children
<1> QED
  BY <1>2, <1>3, <1>4, <1>5 DEF Next

-----------------------------------------------------------------------------
(* Any looks at the flag, and resets it, when the composite returns
   (any.go:55-68). *)
LEMMA AnyReturn ==
  ASSUME wrap = "any", wrap' = wrap, NEW v \in Answers, NEW s \in BOOLEAN,
         Return(v, s), won' # {} => s
  PROVE  AnyInv' /\ AnySucceeds'
<1>1. result' = Overridden(v, s) /\ pos' = 0 /\ success' = (s /\ v \in {"error", "running"})
  BY DEF Return, Flag
<1>2. CASE v \in {"error", "running"}
  <2>1. result' = v /\ success' = s
    BY <1>1, <1>2 DEF Overridden
  <2> QED
    BY <1>2, <2>1 DEF AnyInv, AnySucceeds
<1>3. CASE v \notin {"error", "running"}
  <2>1. result' = IF s THEN "success" ELSE "failure"
    BY <1>1, <1>3 DEF Overridden
  <2> QED
    BY <1>1, <2>1 DEF AnyInv, AnySucceeds, InExecution, Open
<1> QED
  BY <1>2, <1>3

(* The flag is set by whoever succeeds (any.go:46-50), in whatever tick. *)
LEMMA AnyAnswer ==
  ASSUME TypeOK, wrap = "any", pos \in Children, NEW c \in Children, NEW a \in Answers,
         NEW s \in BOOLEAN, Answer(c, a, s), won' # {} => s
  PROVE  AnyInv' /\ AnySucceeds'
<1>1. wrap' = wrap
  BY DEF Answer, shape
<1>2. CASE Returns(kind, n, pos, a)
  <2>1. Returned(kind, a) \in Answers /\ Return(Returned(kind, a), s)
    BY <1>2 DEF Answer, Returned, Answers
  <2> QED
    BY <1>1, <2>1, AnyReturn
<1>3. CASE ~Returns(kind, n, pos, a)
  <2>1. success' = s /\ pos' = Following(kind, pos, a)
    BY <1>3 DEF Answer
  <2>2. pos' > 0
    BY <2>1, OrderType DEF Following, Children
  <2> QED
    BY <2>1, <2>2 DEF AnyInv, AnySucceeds, Returning
<1> QED
  BY <1>2, <1>3

(* So the flag of Any knows of every success until the execution is over. *)
LEMMA AnyStep == TypeOK /\ AnyInv /\ AnySucceeds /\ [Next]_vars => AnyInv' /\ AnySucceeds'
<1> SUFFICES ASSUME TypeOK, AnyInv, AnySucceeds, [Next]_vars PROVE AnyInv' /\ AnySucceeds'
  OBVIOUS
<1>1. CASE wrap # "any"
  <2>1. wrap' = wrap
    <3>1. ASSUME TickChild PROVE wrap' = wrap
      BY <3>1, Ticked DEF Answer, shape
    <3> QED
      BY <3>1 DEF Next, Begin, EndLoop, shape, vars
  <2> QED
    BY <1>1, <2>1 DEF AnyInv, AnySucceeds
<1>2. CASE wrap = "any" /\ Begin
  <2>1. pos' = 1 /\ success' = success /\ (won' # {} => Open /\ won # {})
    BY <1>2 DEF Begin, Forget
  <2> QED
    BY <1>2, <2>1 DEF AnyInv, AnySucceeds, InExecution, Returning
<1>3. CASE wrap = "any" /\ TickChild
  <2>1. PICK c \in Children :
          \/ NilTick(c) \/ Repeat(c)
          \/ \E a \in Answers : \E s \in ComesWith(a) : OwnTick(c, a, s)
    BY <1>3, Ticked DEF TickChild
  <2>2. /\ pos \in Children /\ success \in BOOLEAN /\ "error" \in Answers
        /\ won # {} => success
    BY <1>3, Ticked, OrderType DEF TypeOK, AnyInv, InExecution, Children, Answers
  <2>3. CASE NilTick(c)
    <3>1. Answer(c, "error", success) /\ won' = won
      BY <2>3 DEF NilTick
    <3> QED
      BY <1>3, <2>2, <3>1, AnyAnswer
  <2>4. CASE Repeat(c)
    BY <1>3, <2>4 DEF Repeat, Enabled
  <2>5. ASSUME NEW a \in Answers, NEW status \in ComesWith(a), OwnTick(c, a, status)
        PROVE  AnyInv' /\ AnySucceeds'
    <3>1. PICK s \in BOOLEAN : s = (success \/ a = "success")
      OBVIOUS
    <3>2. Answer(c, a, s) /\ (won' # {} => won # {} \/ a = "success")
      BY <1>3, <2>5, <3>1 DEF OwnTick
    <3> QED
      BY <1>3, <2>2, <3>1, <3>2, AnyAnswer
  <2> QED
    BY <2>1, <2>3, <2>4, <2>5
<1>4. CASE wrap = "any" /\ EndLoop
  <2>1. AfterLoop(kind, ok) \in Answers /\ Return(AfterLoop(kind, ok), success)
    BY <1>4 DEF EndLoop, AfterLoop, Answers, TypeOK, Kinds
  <2>2. /\ wrap' = wrap /\ won' = won /\ success \in BOOLEAN
        /\ won # {} => success
    BY <1>4, OrderType DEF EndLoop, shape, TypeOK, AnyInv, InExecution
  <2> QED
    BY <1>4, <2>1, <2>2, AnyReturn
<1>5. CASE UNCHANGED vars
  BY <1>5 DEF vars, shape, memory, loop, history, AnyInv, AnySucceeds, InExecution, Open, Returning
<1> QED
  BY <1>1, <1>2, <1>3, <1>4, <1>5 DEF Next

-----------------------------------------------------------------------------
(* Without Shuffle the children are ticked in their own order. *)
LEMMA OrderStep == TypeOK /\ OrderInv /\ [Next]_vars => OrderInv'
<1> SUFFICES ASSUME TypeOK, OrderInv, [Next]_vars PROVE OrderInv'
  OBVIOUS
<1>1. CASE Begin
  BY <1>1 DEF Begin, OrderInv, shape, Children
<1>2. CASE TickChild
  BY <1>2, Ticked DEF Answer, OrderInv, shape, Children
<1>3. CASE EndLoop
  BY <1>3 DEF EndLoop, OrderInv, shape, Children
<1>4. CASE UNCHANGED vars
  BY <1>4 DEF vars, shape, loop, OrderInv, Children
<1> QED
  BY <1>1, <1>2, <1>3, <1>4 DEF Next

(* Every composite returns when a child fails with an error or is running. *)
LEMMA AlwaysReturns ==
  ASSUME kind \in Kinds, NEW i
  PROVE  /\ Returns(kind, n, i, "error") /\ Returned(kind, "error") = "error"
         /\ Returns(kind, n, i, "running")
         /\ \A a \in Answers : /\ Returned(kind, a) \in Answers
                               /\ Returned(kind, a) = "running" <=> a = "running"
  BY DEF Kinds, Returns, SequenceReturns, SelectorReturns, AllReturns, SwitchReturns,
         Returned, Answers

(* What an answer does to the node, if no wrapper overrides what it returns. *)
LEMMA Ended ==
  ASSUME TypeOK, wrap \notin {"any", "not"}, NEW c, NEW a \in Answers, NEW s \in BOOLEAN,
         Answer(c, a, s), Returns(kind, n, pos, a)
  PROVE  /\ pos' = 0 /\ result' = Returned(kind, a)
         /\ started' = (started /\ a = "running")
         /\ Open' <=> a = "running"
         /\ a = "running" => runner' = c
<1>1. Return(Returned(kind, a), s) /\ runner' = IF a = "running" THEN c ELSE 0
  BY DEF Answer
<1>2. Returned(kind, a) = "running" <=> a = "running"
  BY AlwaysReturns DEF TypeOK
<1> QED
  BY <1>1, <1>2 DEF Return, Overridden, GoesOn, Open

(* And what it does if the loop goes on. *)
LEMMA WentOn ==
  ASSUME TypeOK, pos \in Children, NEW c, NEW a \in Answers, NEW s \in BOOLEAN,
         Answer(c, a, s), ~Returns(kind, n, pos, a)
  PROVE  /\ pos' = Following(kind, pos, a) /\ pos' > 0 /\ ok' = (ok /\ a = "success")
         /\ UNCHANGED <<started, result, runner>> /\ Open' = Open
         /\ a \notin {"error", "running"}
<1>1. pos' = Following(kind, pos, a) /\ ok' = (ok /\ a = "success")
  BY DEF Answer
<1>2. UNCHANGED <<started, result, runner>>
  BY DEF Answer
<1>3. pos' > 0
  BY <1>1, OrderType DEF Following, Children
<1>4. a \notin {"error", "running"}
  BY AlwaysReturns DEF TypeOK
<1> QED
  BY <1>1, <1>2, <1>3, <1>4 DEF Open

(* When the loop ends, what is returned is not running. *)
LEMMA EndedLoop ==
  ASSUME TypeOK, EndLoop, wrap \notin {"any", "not"}
  PROVE  /\ pos' = 0 /\ result' = AfterLoop(kind, ok) /\ ~Open' /\ started' = FALSE
         /\ n \in Nat /\ pos > 0
         /\ UNCHANGED <<shape, order, override, statuses, final, lost, stuck>>
<1>1. AfterLoop(kind, ok) \in {"success", "failure"}
  BY DEF AfterLoop, TypeOK, Kinds
<1>2. n \in Nat /\ pos > 0
  BY OrderType DEF EndLoop, TypeOK
<1> QED
  BY <1>1, <1>2 DEF EndLoop, Return, Overridden, GoesOn, Open

(* The loop can go on to an iteration that lies on its way. *)
LEMMA OnTheWayStep ==
  ASSUME TypeOK, pos \in Children, NEW p \in Children, NEW a \in Answers,
         OnTheWay(p), pos # p, Passes(p, pos, a)
  PROVE  /\ ~Returns(kind, n, pos, a)
         /\ Following(kind, pos, a) <= p
         /\ kind = "Switch" /\ Following(kind, pos, a) % 2 = 0 => Following(kind, pos, a) = p
<1>1. n \in Nat /\ pos \in 1..n /\ p \in 1..n /\ pos < p
  BY OrderType DEF Children, OnTheWay
<1>2. CASE kind # "Switch"
  BY <1>1, <1>2 DEF Passes, Following
<1>3. CASE kind = "Switch"
  <2>1. pos % 2 = 1
    BY <1>1, <1>3, Parity DEF OnTheWay
  <2>2. IF p = pos + 1 THEN a = "success" ELSE a \in {"failure", "invalid"}
    BY <1>3, <2>1 DEF Passes
  <2>3. ~Returns(kind, n, pos, a)
    BY <1>1, <1>3, <2>1, <2>2 DEF Returns, SwitchReturns, Statement
  <2>4. Following(kind, pos, a) = IF p = pos + 1 THEN pos + 1 ELSE pos + 2
    BY <1>3, <2>2 DEF Following
  <2> QED
    BY <1>1, <2>1, <2>3, <2>4, Parity
<1> QED
  BY <1>2, <1>3

(* If the last results of the children so far took the loop where it ends, they
   are what tells what it returns, whatever was answered in this tick. *)
LEMMA FinalReturn ==
  ASSUME TypeOK, wrap \notin {"any", "not"}, pos \in Children,
         NEW a \in Answers, NEW s \in BOOLEAN, Answer(order[pos], a, s),
         Returns(kind, n, pos, a), Covers(final),
         final' \in [Children -> Answers \cup {"none"}], final'[order[pos]] = a,
         \A d \in Children : d # order[pos] => final'[d] = final[d]
  PROVE  OutcomeOfExecution'
<1>1. shape' = shape /\ order' = order
  BY DEF Answer
<1>2. PICK e : e = InOrder(final)'
  OBVIOUS
<1>3. e = [i \in Children |-> final'[order[i]]]
  BY <1>1, <1>2 DEF InOrder, shape, Children
<1>4. e \in [Children -> Answers \cup {"none"}] /\ e[pos] = a
  BY <1>3, OrderType
<1>5. \A i \in 1..pos - 1 : e[i] = final[order[i]]
  BY <1>3, Before
<1>6. Outcome(kind, n, e) = Returned(kind, a)
  BY <1>4, <1>5, CoverReturn
<1>7. result' = Returned(kind, a)
  <2>1. order[pos] \in Children
    BY OrderType
  <2> QED
    BY <2>1, Ended
<1> QED
  BY <1>1, <1>2, <1>6, <1>7 DEF OutcomeOfExecution, shape

(* The same at the end of the loop. *)
LEMMA FinalEnd ==
  ASSUME TypeOK, wrap \notin {"any", "not"}, EndLoop, Covers(final)
  PROVE  OutcomeOfExecution'
<1>1. shape' = shape /\ order' = order /\ final' = final /\ result' = AfterLoop(kind, ok)
  BY EndedLoop
<1>2. PICK e : e = InOrder(final)'
  OBVIOUS
<1>3. e = [i \in Children |-> final[order[i]]]
  BY <1>1, <1>2 DEF InOrder, shape, Children
<1>4. e \in [Children -> Answers \cup {"none"}] /\ pos > n
  BY <1>3, OrderType DEF TypeOK, EndLoop
<1>5. \A i \in Children : e[i] = final[order[i]]
  BY <1>3
<1>6. Outcome(kind, n, e) = AfterLoop(kind, ok)
  BY <1>4, <1>5, CoverEnd
<1> QED
  BY <1>1, <1>2, <1>6 DEF OutcomeOfExecution, shape

-----------------------------------------------------------------------------
(* An execution of Memorize begins with nothing in memory, and goes on with all
   there is (memorize.go:35-37). *)
LEMMA MemorizeBegin ==
  ASSUME TypeOK, OrderInv, MemorizeInv, wrap = "memorize", Begin
  PROVE  MemorizeInv'
<1>1. /\ pos = 0 /\ pos' = 1 /\ ok' = TRUE /\ started' = TRUE /\ real' = {} /\ Open' = Open
      /\ shape' = shape /\ runner' = runner
      /\ override' = (IF started THEN override ELSE Nothing)
      /\ final' = IF Open THEN final ELSE Nothing
  BY DEF Begin, Forget, Cache, Open
<1>2. (started <=> Open) /\ (Open => override = final)
  BY <1>1 DEF MemorizeInv, InExecution
<1>3. override' = final'
  BY <1>1, <1>2
<1>4. Covers(final)'
  BY <1>1 DEF Covers, Path
<1>5. ASSUME ~shuffled, Open
      PROVE  /\ runner' \in Children /\ final'[runner'] = "none"
             /\ Path(runner, final)' /\ OnTheWay(runner)'
  <2>1. /\ runner \in Children /\ final[runner] = "none" /\ Path(runner, final)
        /\ runner' = runner /\ final' = final
    BY <1>1, <1>5 DEF MemorizeInv, Fresh
  <2>2. order' = order
    BY <1>5 DEF Begin
  <2>3. OnTheWay(runner)'
    BY <1>1, <2>1, OrderType DEF OnTheWay, Children
  <2> QED
    BY <1>1, <2>1, <2>2, <2>3 DEF Path, Passes, shape
<1> QED
  BY <1>1, <1>3, <1>4, <1>5 DEF MemorizeInv, shape, Children

(* Returning anything but running ends the execution. *)
LEMMA MemorizeEnds ==
  ASSUME wrap' = wrap, pos' = 0, ~Open', started' = FALSE
  PROVE  MemorizeInv'
  BY DEF MemorizeInv, InExecution

(* A child that has a final status repeats it (memorize.go:47-49). *)
LEMMA MemorizeRepeat ==
  ASSUME TypeOK, OrderInv, MemorizeInv, wrap = "memorize", pos \in Children, Repeat(order[pos])
  PROVE  MemorizeInv' /\ OutcomeOfExecution'
<1>1. /\ pos > 0 /\ order[pos] \in Children /\ started = TRUE
      /\ override = final /\ Covers(final)
  BY OrderType DEF MemorizeInv, InExecution, Children
<1>2. PICK a \in Answers : a = final[order[pos]]
  BY <1>1 DEF Repeat, Enabled, TypeOK
<1>3. a # "running"
  BY <1>1, <1>2 DEF TypeOK, Answers
<1>4. /\ Answer(order[pos], a, success) /\ success \in BOOLEAN
      /\ UNCHANGED <<override, final, real>>
  BY <1>1, <1>2 DEF Repeat, Remembered, TypeOK
<1>5. shape' = shape /\ order' = order
  BY <1>4 DEF Answer
<1>6. CASE Returns(kind, n, pos, a)
  <2>1. pos' = 0 /\ ~Open' /\ started' = FALSE
    BY <1>1, <1>3, <1>4, <1>6, Ended
  <2>2. final' \in [Children -> Answers \cup {"none"}] /\ final'[order[pos]] = a
    BY <1>2, <1>4 DEF TypeOK
  <2>3. OutcomeOfExecution'
    BY <1>1, <1>4, <1>6, <2>2, FinalReturn
  <2> QED
    BY <1>5, <2>1, <2>3, MemorizeEnds DEF shape
<1>7. CASE ~Returns(kind, n, pos, a)
  <2>1. /\ pos' = Following(kind, pos, a) /\ pos' > 0 /\ ok' = (ok /\ a = "success")
        /\ UNCHANGED <<started, result, runner>> /\ Open' = Open
    BY <1>4, <1>7, WentOn
  <2>2. /\ \A i \in 1..pos' - 1 : Passes(pos', i, final[order[i]])
        /\ kind = "All" =>
             (ok /\ a = "success" <=> \A i \in 1..pos' - 1 : final[order[i]] = "success")
    BY <1>1, <1>2, <1>7, <2>1, CoverStep
  <2>3. Covers(final)'
    BY <1>4, <1>5, <2>1, <2>2 DEF Covers, Path, Passes, shape
  <2>4. ASSUME ~shuffled, Open, real = {}
        PROVE  /\ runner \in Children /\ final[runner] = "none"
               /\ Path(runner, final)' /\ OnTheWay(runner)'
    <3>1. /\ runner \in Children /\ final[runner] = "none"
          /\ Path(runner, final) /\ OnTheWay(runner)
      BY <1>1, <2>4 DEF MemorizeInv, Fresh
    <3>2. order[pos] = pos
      BY <2>4 DEF OrderInv
    <3>3. pos # runner
      BY <1>2, <3>1, <3>2 DEF Answers
    <3>4. pos \in 1..runner - 1
      BY <3>1, <3>3, OrderType DEF OnTheWay, Children
    <3>5. Passes(runner, pos, a)
      BY <1>2, <3>1, <3>4 DEF Path
    <3>6. OnTheWay(runner)'
      BY <1>5, <2>1, <3>1, <3>3, <3>5, OnTheWayStep DEF OnTheWay, shape
    <3>7. Path(runner, final)'
      BY <1>4, <1>5, <2>1, <3>1 DEF Path, Passes, shape
    <3> QED
      BY <3>1, <3>6, <3>7
  <2>5. OutcomeOfExecution'
    BY <2>1 DEF OutcomeOfExecution, Returning
  <2>6. MemorizeInv'
    BY <1>1, <1>4, <1>5, <2>1, <2>3, <2>4 DEF MemorizeInv, Fresh, shape, Children
  <2> QED
    BY <2>5, <2>6
<1> QED
  BY <1>6, <1>7

(* A child without a tick ends the execution. *)
LEMMA MemorizeNil ==
  ASSUME TypeOK, MemorizeInv, wrap = "memorize", pos \in Children, NilTick(order[pos])
  PROVE  MemorizeInv' /\ OutcomeOfExecution'
<1>1. /\ order[pos] \in Children /\ Covers(final) /\ Answer(order[pos], "error", success)
      /\ success \in BOOLEAN /\ "error" \in Answers
      /\ final' = [final EXCEPT ![order[pos]] = "error"]
  BY OrderType DEF MemorizeInv, Children, NilTick, TypeOK, Answers
<1>2. Returns(kind, n, pos, "error")
  BY AlwaysReturns DEF TypeOK
<1>3. pos' = 0 /\ ~Open' /\ started' = FALSE
  BY <1>1, <1>2, Ended
<1>4. /\ final' \in [Children -> Answers \cup {"none"}] /\ final'[order[pos]] = "error"
      /\ \A d \in Children : d # order[pos] => final'[d] = final[d]
  BY <1>1 DEF TypeOK
<1>5. OutcomeOfExecution'
  BY <1>1, <1>2, <1>4, FinalReturn
<1> QED
  BY <1>1, <1>3, <1>5, MemorizeEnds DEF Answer, shape

(* The tick of a child is called if it has no final status, and gets one unless
   it is running (memorize.go:53-58). *)
LEMMA MemorizeOwn ==
  ASSUME TypeOK, OrderInv, MemorizeInv, wrap = "memorize", pos \in Children,
         NEW a \in Answers, NEW status, OwnTick(order[pos], a, status)
  PROVE  MemorizeInv' /\ OutcomeOfExecution'
<1>1. /\ pos > 0 /\ order[pos] \in Children /\ started = TRUE
      /\ override = final /\ Covers(final) /\ final[order[pos]] = "none"
  BY OrderType DEF MemorizeInv, InExecution, Children, OwnTick, Enabled
<1>2. /\ Answer(order[pos], a, success) /\ success \in BOOLEAN
      /\ final' = IF a = "running" THEN final ELSE [final EXCEPT ![order[pos]] = a]
      /\ override' = IF a # "running" THEN [override EXCEPT ![order[pos]] = a] ELSE override
      /\ real' # {}
  <2>1. (success \/ (wrap = "any" /\ a = "success")) = success
    BY DEF TypeOK
  <2> QED
    BY <2>1 DEF OwnTick, TypeOK
<1>3. shape' = shape /\ order' = order /\ override' = final'
  BY <1>1, <1>2 DEF Answer
<1>4. /\ \A d \in Children : d # order[pos] => final'[d] = final[d]
      /\ a # "running" => final'[order[pos]] = a
      /\ final' \in [Children -> Answers \cup {"none"}]
  BY <1>1, <1>2 DEF TypeOK
<1>5. CASE Returns(kind, n, pos, a) /\ a # "running"
  <2>1. pos' = 0 /\ ~Open' /\ started' = FALSE
    BY <1>2, <1>5, Ended
  <2>2. OutcomeOfExecution'
    BY <1>1, <1>2, <1>4, <1>5, FinalReturn
  <2> QED
    BY <1>3, <2>1, <2>2, MemorizeEnds DEF shape
<1>6. CASE a = "running"
  <2>1. Returns(kind, n, pos, a)
    BY <1>6, AlwaysReturns DEF TypeOK
  <2>2. /\ pos' = 0 /\ Open' = TRUE /\ started' = TRUE
        /\ runner' = order[pos] /\ final' = final
    BY <1>1, <1>2, <1>6, <2>1, Ended
  <2>3. ASSUME ~shuffled
        PROVE  Path(runner, final)'
    <3>1. order[pos] = pos
      BY <2>3 DEF OrderInv
    <3> QED
      BY <1>1, <1>3, <2>2, <3>1 DEF Covers, Path, Passes, shape
  <2> QED
    BY <1>1, <1>3, <2>2, <2>3
    DEF MemorizeInv, OutcomeOfExecution, Open, shape, Children
<1>7. CASE ~Returns(kind, n, pos, a)
  <2>1. /\ pos' = Following(kind, pos, a) /\ pos' > 0 /\ ok' = (ok /\ a = "success")
        /\ started' = started /\ a # "running"
    BY <1>2, <1>7, WentOn
  <2>2. \A i \in 1..pos - 1 : final'[order[i]] = final[order[i]]
    BY <1>4, Before
  <2>3. /\ \A i \in 1..pos' - 1 : Passes(pos', i, final'[order[i]])
        /\ kind = "All" =>
             (ok /\ a = "success" <=> \A i \in 1..pos' - 1 : final'[order[i]] = "success")
    BY <1>1, <1>4, <1>7, <2>1, <2>2, CoverStep
  <2>4. Covers(final)'
    BY <1>3, <2>1, <2>3 DEF Covers, Path, Passes, shape
  <2> QED
    BY <1>1, <1>2, <1>3, <2>1, <2>4 DEF MemorizeInv, Fresh, OutcomeOfExecution, Returning
<1> QED
  BY <1>5, <1>6, <1>7

(* Every step of a node under Memorize. *)
LEMMA MemorizeStep ==
  ASSUME TypeOK, OrderInv, MemorizeInv, OutcomeOfExecution, wrap = "memorize", [Next]_vars
  PROVE  MemorizeInv' /\ OutcomeOfExecution'
<1>1. CASE Begin
  BY <1>1, MemorizeBegin DEF Begin, OutcomeOfExecution, Returning
<1>2. CASE TickChild
  <2>1. /\ pos \in Children
        /\ \/ NilTick(order[pos]) \/ Repeat(order[pos])
           \/ \E a \in Answers : \E s \in ComesWith(a) : OwnTick(order[pos], a, s)
    BY <1>2 DEF TickChild
  <2> QED
    BY <2>1, MemorizeNil, MemorizeRepeat, MemorizeOwn
<1>3. CASE EndLoop
  <2>1. pos' = 0 /\ ~Open' /\ started' = FALSE /\ pos > 0 /\ wrap' = wrap
    BY <1>3, EndedLoop DEF shape
  <2>2. OutcomeOfExecution'
    BY <1>3, <2>1, FinalEnd DEF MemorizeInv
  <2> QED
    BY <2>1, <2>2, MemorizeEnds
<1>4. CASE UNCHANGED vars
  BY <1>4 DEF vars, shape, loop, memory, history, MemorizeInv, OutcomeOfExecution, Returning,
    Open, PerExecution, InOrder, Children, Covers, Path, Passes, OnTheWay, InExecution, Fresh
<1> QED
  BY <1>1, <1>2, <1>3, <1>4 DEF Next

-----------------------------------------------------------------------------
(* What Sync has in memory. *)
LEMMA MemoryType ==
  ASSUME TypeOK, wrap = "sync"
  PROVE  /\ Memory = [c \in Children |-> IF statuses[c] = "none" THEN "invalid" ELSE statuses[c]]
         /\ \A c \in Children : /\ Memory[c] = Remembered(c) /\ Memory[c] \in Answers
                                /\ Memory[c] = "running" <=> c \in RunningOf
  BY DEF Memory, Remembered, RunningOf, TypeOK, Answers

(* Only the tick of a child changes that. *)
LEMMA MemoryStays ==
  ASSUME wrap = "sync", UNCHANGED <<shape, statuses>>
  PROVE  Memory' = Memory /\ RunningOf' = RunningOf
  BY DEF Memory, Remembered, RunningOf, shape, Children

(* A new execution of Sync finds no child running, unless it is stuck. *)
LEMMA SyncBegin ==
  ASSUME TypeOK, OrderInv, SyncInv, ResumeInv, FinalInv, wrap = "sync", Begin
  PROVE  SyncInv' /\ ResumeInv' /\ FinalInv'
<1>1. /\ pos = 0 /\ pos' = 1 /\ ok' = TRUE /\ real' = {} /\ Open' = Open
      /\ shape' = shape /\ UNCHANGED <<statuses, lost, runner>>
      /\ final' = IF Open THEN final ELSE Nothing
      /\ stuck' = IF Open THEN stuck ELSE lost # {}
  BY DEF Begin, Forget, Open
<1>2. Memory' = Memory /\ RunningOf' = RunningOf
  BY <1>1, MemoryStays
<1>3. SyncInv'
  BY <1>1, <1>2 DEF SyncInv, Fresh, shape
<1>4. Covers(Memory)' /\ Covers(final)'
  BY <1>1 DEF Covers, Path
<1>5. ASSUME ~shuffled, NEW c \in RunningOf \ lost
      PROVE  Path(c, Memory)' /\ OnTheWay(c)'
  <2>1. Path(c, Memory) /\ order' = order /\ c \in 1..n /\ n \in Nat
    BY <1>1, <1>5, OrderType DEF ResumeInv, Begin, RunningOf, Children
  <2>2. OnTheWay(c)'
    BY <1>1, <2>1 DEF OnTheWay
  <2> QED
    BY <1>1, <1>2, <2>1, <2>2 DEF Path, Passes, shape
<1>6. ResumeInv'
  BY <1>1, <1>2, <1>4, <1>5 DEF ResumeInv, InExecution, shape
<1>7. ASSUME ~shuffled, ~stuck'
      PROVE  FinalInv'
  <2>1. CASE Open
    <3>1. /\ lost = {} /\ runner \in RunningOf /\ final' = final
          /\ \A c \in Children : final[c] # "none" => final[c] = Memory[c]
          /\ \A c \in RunningOf : Path(c, final) /\ \A d \in Children : d >= c => final[d] = "none"
      BY <1>1, <1>7, <2>1 DEF FinalInv, InExecution, SyncInv, Fresh
    <3>2. \A c \in RunningOf : Path(c, final)'
      BY <1>1, <1>7, <3>1 DEF Begin, Path, Passes, shape
    <3> QED
      BY <1>1, <1>2, <1>4, <3>1, <3>2 DEF FinalInv, shape, Children
  <2>2. CASE ~Open
    <3>1. lost = {} /\ RunningOf = {}
      <4>1. lost = {} /\ ~InExecution
        <5>1. stuck' = (lost # {})
          BY <1>1, <2>2
        <5>2. lost = {}
          BY <1>7, <5>1
        <5>3. ~InExecution
          BY <1>1, <2>2 DEF InExecution
        <5> QED
          BY <5>2, <5>3
      <4>2. \A c \in RunningOf \ lost : FALSE
        BY <1>7, <4>1 DEF ResumeInv
      <4> QED
        BY <4>1, <4>2
    <3>2. \A c \in Children : final'[c] = "none"
      BY <1>1, <2>2 DEF Nothing
    <3> QED
      BY <1>1, <1>2, <1>4, <3>1, <3>2 DEF FinalInv, shape, Children
  <2> QED
    BY <2>1, <2>2
<1> QED
  BY <1>1, <1>3, <1>6, <1>7 DEF FinalInv, shape

(* Whatever ends an execution of Sync while no child is running. *)
LEMMA SyncEnds ==
  ASSUME wrap = "sync", wrap' = wrap, pos' = 0, ~Open', \A c, d \in RunningOf' : c = d,
         ~shuffled => RunningOf' \subseteq lost', shuffled' = shuffled
  PROVE  SyncInv' /\ ResumeInv' /\ FinalInv'
  BY DEF SyncInv, ResumeInv, FinalInv, InExecution

(* A child without a tick leaves all that run without one (sync.go:64). *)
LEMMA SyncNil ==
  ASSUME TypeOK, SyncInv, FinalInv, wrap = "sync", pos \in Children, NilTick(order[pos])
  PROVE  SyncInv' /\ ResumeInv' /\ FinalInv' /\ OutcomeOfExecution'
<1>1. /\ order[pos] \in Children /\ Answer(order[pos], "error", success) /\ pos > 0
      /\ success \in BOOLEAN /\ "error" \in Answers
      /\ final' = [final EXCEPT ![order[pos]] = "error"]
      /\ lost' = RunningOf /\ statuses' = statuses
  BY OrderType DEF Children, NilTick, TypeOK, Answers, RunningOf
<1>2. Returns(kind, n, pos, "error")
  BY AlwaysReturns DEF TypeOK
<1>3. pos' = 0 /\ ~Open'
  BY <1>1, <1>2, Ended
<1>4. shape' = shape /\ stuck' = stuck
  BY <1>1 DEF Answer
<1>5. RunningOf' = RunningOf
  BY <1>1, <1>4, MemoryStays
<1>6. SyncInv' /\ ResumeInv' /\ FinalInv'
  BY <1>1, <1>3, <1>4, <1>5, SyncEnds DEF SyncInv, shape
<1>7. CASE ~shuffled /\ ~stuck
  <2>1. Covers(final)
    BY <1>1, <1>7 DEF FinalInv, InExecution
  <2>2. /\ final' \in [Children -> Answers \cup {"none"}] /\ final'[order[pos]] = "error"
        /\ \A d \in Children : d # order[pos] => final'[d] = final[d]
    BY <1>1 DEF TypeOK
  <2> QED
    BY <1>1, <1>2, <1>6, <2>1, <2>2, FinalReturn
<1>8. CASE shuffled \/ stuck
  BY <1>4, <1>6, <1>8 DEF OutcomeOfExecution, PerExecution, shape
<1> QED
  BY <1>7, <1>8

(* While a child is running, the others repeat what they answered last
   (sync.go:67-73), which takes the loop back to it. *)
LEMMA SyncRepeat ==
  ASSUME TypeOK, OrderInv, SyncInv, ResumeInv, FinalInv, wrap = "sync",
         pos \in Children, Repeat(order[pos])
  PROVE  SyncInv' /\ ResumeInv' /\ FinalInv' /\ OutcomeOfExecution'
<1>1. /\ pos > 0 /\ order[pos] \in Children /\ order[pos] \notin RunningOf
      /\ RunningOf # {} /\ success \in BOOLEAN
      /\ UNCHANGED <<statuses, final, real, lost>>
  BY OrderType DEF Children, Repeat, Enabled, RunningOf, TypeOK
<1>2. PICK a \in Answers : a = Memory[order[pos]]
  BY <1>1, MemoryType
<1>3. Answer(order[pos], a, success) /\ a # "running"
  BY <1>1, <1>2, MemoryType DEF Repeat
<1>4. shape' = shape /\ order' = order /\ stuck' = stuck
  BY <1>3 DEF Answer
<1>5. Memory' = Memory /\ RunningOf' = RunningOf
  BY <1>1, <1>4, MemoryStays
<1>6. ASSUME ~Returns(kind, n, pos, a)
      PROVE  /\ pos' = Following(kind, pos, a) /\ pos' > 0 /\ ok' = (ok /\ a = "success")
             /\ Open' = Open /\ SyncInv' /\ OutcomeOfExecution'
  <2>1. /\ pos' = Following(kind, pos, a) /\ pos' > 0 /\ ok' = (ok /\ a = "success")
        /\ UNCHANGED <<result, runner>> /\ Open' = Open
    BY <1>1, <1>3, <1>6, WentOn
  <2> QED
    BY <1>1, <1>4, <1>5, <2>1 DEF SyncInv, Fresh, OutcomeOfExecution, Returning, shape
<1>7. ASSUME ~Returns(kind, n, pos, a), ~shuffled
      PROVE  Covers(Memory)'
  <2>1. Covers(Memory)
    BY <1>1, <1>7 DEF ResumeInv
  <2>2. /\ \A i \in 1..pos' - 1 : Passes(pos', i, Memory[order[i]])
        /\ kind = "All" =>
             (ok /\ a = "success" <=> \A i \in 1..pos' - 1 : Memory[order[i]] = "success")
    BY <1>2, <1>6, <1>7, <2>1, CoverStep
  <2> QED
    BY <1>4, <1>5, <1>6, <1>7, <2>2 DEF Covers, Path, Passes, shape
<1>8. CASE ~shuffled /\ RunningOf \cap lost = {}
  <2>1. PICK r \in RunningOf : r \in Children /\ r \notin lost
    BY <1>1, <1>8 DEF RunningOf
  <2>2. order[pos] = pos /\ pos # r
    BY <1>1, <1>8, <2>1 DEF OrderInv
  <2>3. Path(r, Memory) /\ OnTheWay(r)
    BY <1>1, <1>8, <2>1 DEF ResumeInv
  <2>4. pos \in 1..r - 1 /\ r \in Nat
    BY <2>1, <2>2, <2>3, OrderType DEF OnTheWay, Children
  <2>5. Passes(r, pos, a)
    BY <1>2, <2>3, <2>4 DEF Path
  <2>6. ~Returns(kind, n, pos, a)
    BY <2>1, <2>2, <2>3, <2>5, OnTheWayStep
  <2>7. OnTheWay(r)'
    BY <1>4, <1>6, <2>1, <2>2, <2>3, <2>5, <2>6, OnTheWayStep DEF OnTheWay, shape
  <2>8. Path(r, Memory)'
    BY <1>4, <1>5, <2>3 DEF Path, Passes, shape
  <2>9. \A c \in RunningOf : c = r
    BY <2>1 DEF SyncInv
  <2>10. ResumeInv'
    BY <1>1, <1>4, <1>5, <1>6, <1>7, <1>8, <2>6, <2>7, <2>8, <2>9
    DEF ResumeInv, InExecution, shape
  <2>11. ASSUME ~stuck
         PROVE  FinalInv'
    <3>1. /\ lost = {} /\ Covers(final) /\ Path(r, final)
          /\ \A c \in Children : final[c] # "none" => final[c] = Memory[c]
          /\ \A d \in Children : d >= r => final[d] = "none"
      BY <1>1, <1>8, <2>1, <2>11 DEF FinalInv, InExecution
    <3>2. Passes(r, pos, final[pos])
      BY <2>2, <2>4, <3>1 DEF Path
    <3>3. kind = "Switch" => pos % 2 = 1
      BY <2>2, <2>3, <2>4, Parity DEF OnTheWay
    <3>4. final[pos] # "none"
      BY <3>2, <3>3 DEF Passes, Answers
    <3>5. final[order[pos]] = a
      BY <1>2, <2>2, <3>1, <3>4
    <3>6. /\ \A i \in 1..pos' - 1 : Passes(pos', i, final[order[i]])
          /\ kind = "All" =>
               (ok /\ a = "success" <=> \A i \in 1..pos' - 1 : final[order[i]] = "success")
      BY <1>6, <2>6, <3>1, <3>5, CoverStep
    <3>7. Covers(final)'
      BY <1>1, <1>4, <1>6, <2>6, <3>6 DEF Covers, Path, Passes, shape
    <3>8. Path(r, final)'
      BY <1>1, <1>4, <3>1 DEF Path, Passes, shape
    <3> QED
      BY <1>1, <1>4, <1>5, <2>9, <3>1, <3>7, <3>8 DEF FinalInv, shape, Children
  <2> QED
    BY <1>4, <1>6, <2>6, <2>10, <2>11 DEF FinalInv
<1>9. CASE ~(~shuffled /\ RunningOf \cap lost = {})
  <2>1. ~shuffled => RunningOf \subseteq lost /\ stuck
    <3>1. ~shuffled => RunningOf \subseteq lost
      BY <1>9 DEF SyncInv
    <3> QED
      BY <1>1, <1>9, <3>1 DEF FinalInv, InExecution, TypeOK
  <2>2. OutcomeOfExecution' /\ FinalInv'
    BY <1>4, <2>1 DEF OutcomeOfExecution, PerExecution, FinalInv, shape
  <2>3. CASE Returns(kind, n, pos, a)
    <3>1. pos' = 0 /\ ~Open'
      BY <1>1, <1>3, <2>3, Ended
    <3>2. \A c, d \in RunningOf' : c = d
      BY <1>5 DEF SyncInv
    <3>3. SyncInv' /\ ResumeInv'
      BY <1>1, <1>4, <1>5, <2>1, <3>1, <3>2, SyncEnds DEF shape
    <3> QED
      BY <2>2, <3>3
  <2>4. CASE ~Returns(kind, n, pos, a)
    <3>1. ResumeInv'
      BY <1>1, <1>4, <1>5, <1>6, <1>7, <2>1, <2>4 DEF ResumeInv, shape
    <3> QED
      BY <1>6, <2>2, <2>4, <3>1
  <2> QED
    BY <2>3, <2>4
<1> QED
  BY <1>8, <1>9

(* No child has a result of this execution when its own tick is called. *)
LEMMA OwnTickFirst ==
  ASSUME TypeOK, OrderInv, SyncInv, FinalInv, wrap = "sync", ~shuffled, ~stuck,
         pos \in Children, NEW a, NEW s, OwnTick(order[pos], a, s)
  PROVE  /\ order[pos] = pos /\ RunningOf \subseteq {pos} /\ lost = {} /\ Covers(final)
         /\ \A d \in Children : d >= pos => final[d] = "none"
<1>1. order[pos] = pos /\ pos > 0
  BY OrderType DEF OrderInv, Children
<1>2. /\ lost = {} /\ Covers(final)
      /\ \A c \in RunningOf : \A d \in Children : d >= c => final[d] = "none"
      /\ RunningOf = {} => \A d \in Children : d >= pos => final[d] = "none"
  BY <1>1 DEF FinalInv, InExecution
<1>3. pos \in RunningOf \/ RunningOf = {}
  BY <1>1 DEF OwnTick, Enabled, RunningOf
<1>4. \A c, d \in RunningOf : c = d
  BY DEF SyncInv
<1> QED
  BY <1>1, <1>2, <1>3, <1>4

(* The tick of a child is called if it is the one that is running, or none is;
   then it is marked as running, or none is (sync.go:67-79), and if an error
   came with that status, the execution is over nevertheless. *)
LEMMA SyncOwn ==
  ASSUME TypeOK, OrderInv, SyncInv, ResumeInv, FinalInv, wrap = "sync",
         pos \in Children, NEW a \in Answers, NEW s \in ComesWith(a), OwnTick(order[pos], a, s)
  PROVE  SyncInv' /\ ResumeInv' /\ FinalInv' /\ OutcomeOfExecution'
<1>1. pos > 0 /\ order[pos] \in Children /\ RunningOf \subseteq {order[pos]}
  <2>1. order[pos] \in RunningOf \/ RunningOf = {}
    BY OrderType DEF OwnTick, Enabled, RunningOf
  <2> QED
    BY <2>1, OrderType DEF Children, SyncInv
<1>2. /\ Answer(order[pos], a, success) /\ success \in BOOLEAN
      /\ statuses' = [statuses EXCEPT ![order[pos]] = s]
      /\ final' = IF a = "running" THEN final ELSE [final EXCEPT ![order[pos]] = a]
      /\ real' # {}
      /\ lost' = IF a = "error" /\ s = "running" THEN lost \cup {order[pos]}
                                                  ELSE lost \ {order[pos]}
  <2>1. (success \/ (wrap = "any" /\ a = "success")) = success
    BY DEF TypeOK
  <2> QED
    BY <2>1 DEF OwnTick, Recorded, TypeOK
<1>3. shape' = shape /\ order' = order /\ stuck' = stuck
  BY <1>2 DEF Answer
<1>4. /\ \A d \in Children : d # order[pos] => final'[d] = final[d]
      /\ a # "running" => final'[order[pos]] = a
      /\ final' \in [Children -> Answers \cup {"none"}]
  BY <1>1, <1>2 DEF TypeOK
<1>5. /\ s \in Answers \ {"error"} /\ (a # "error" => s = a)
      /\ \A d \in Children : d # order[pos] => Memory'[d] = Memory[d]
      /\ a # "error" => Memory'[order[pos]] = a
  <2>1. s \in Answers \ {"error"} /\ (a # "error" => s = a)
    BY DEF ComesWith
  <2> QED
    BY <1>1, <1>2, <1>3, <2>1 DEF Memory, Remembered, TypeOK, Answers, shape, Children
<1>6. RunningOf' = IF s = "running" THEN {order[pos]} ELSE {}
  <2>1. \A d \in Children : d # order[pos] => statuses'[d] = statuses[d]
    BY <1>1, <1>2 DEF TypeOK
  <2>2. statuses'[order[pos]] = s
    BY <1>1, <1>2 DEF TypeOK
  <2> QED
    BY <1>1, <1>3, <2>1, <2>2 DEF RunningOf, shape, Children
<1>7. CASE Returns(kind, n, pos, a) /\ a # "running"
  <2>1. pos' = 0 /\ ~Open'
    BY <1>2, <1>7, Ended
  <2>2. RunningOf' \subseteq lost' /\ \A c, d \in RunningOf' : c = d
    BY <1>2, <1>5, <1>6, <1>7
  <2>3. SyncInv' /\ ResumeInv' /\ FinalInv'
    BY <1>3, <2>1, <2>2, SyncEnds DEF shape
  <2>4. CASE ~shuffled /\ ~stuck
    BY <1>1, <1>2, <1>4, <1>7, <2>3, <2>4, OwnTickFirst, FinalReturn
  <2>5. CASE shuffled \/ stuck
    BY <1>3, <2>3, <2>5 DEF OutcomeOfExecution, PerExecution, shape
  <2> QED
    BY <2>4, <2>5
<1>8. CASE a = "running"
  <2>1. Returns(kind, n, pos, a)
    BY <1>8, AlwaysReturns DEF TypeOK
  <2>2. pos' = 0 /\ Open' = TRUE /\ runner' = order[pos] /\ final' = final
    BY <1>2, <1>8, <2>1, Ended
  <2>3. RunningOf' = {order[pos]} /\ SyncInv' /\ OutcomeOfExecution'
    BY <1>3, <1>5, <1>6, <1>8, <2>2 DEF SyncInv, OutcomeOfExecution, Open, shape
  <2>4. ASSUME ~shuffled
        PROVE  ResumeInv'
    <3>1. order[pos] = pos /\ Covers(Memory)
      BY <1>1, <2>4 DEF OrderInv, ResumeInv
    <3>2. \A i \in 1..pos - 1 : Memory'[order[i]] = Memory[order[i]]
      BY <1>5, Before
    <3>3. PICK c : c = pos
      OBVIOUS
    <3>4. Path(c, Memory)'
      BY <1>3, <3>1, <3>2, <3>3 DEF Covers, Path, Passes, shape
    <3>5. RunningOf' = {c}
      BY <2>3, <3>1, <3>3
    <3> QED
      BY <2>2, <3>4, <3>5 DEF ResumeInv, InExecution
  <2>5. ASSUME ~shuffled, ~stuck
        PROVE  FinalInv'
    <3>1. /\ order[pos] = pos /\ lost = {} /\ Covers(final)
          /\ \A d \in Children : d >= pos => final[d] = "none"
      BY <2>5, OwnTickFirst
    <3>2. \A d \in Children : final[d] # "none" => final[d] = Memory'[d]
      <4>1. \A d \in Children : final[d] # "none" => final[d] = Memory[d] /\ d # pos
        BY <1>1, <2>5, <3>1, OrderType DEF FinalInv, InExecution, Children
      <4> QED
        BY <1>5, <3>1, <4>1
    <3>3. PICK c : c = pos
      OBVIOUS
    <3>4. Path(c, final)'
      BY <1>3, <2>2, <3>1, <3>3 DEF Covers, Path, Passes, shape
    <3>5. RunningOf' = {c} /\ lost' = {} /\ Children' = Children
      BY <1>2, <1>3, <1>8, <2>3, <3>1, <3>3 DEF shape, Children
    <3> QED
      BY <2>2, <3>1, <3>2, <3>3, <3>4, <3>5 DEF FinalInv
  <2> QED
    BY <1>3, <2>3, <2>4, <2>5 DEF ResumeInv, FinalInv, shape
<1>9. CASE ~Returns(kind, n, pos, a)
  <2>1. /\ pos' = Following(kind, pos, a) /\ pos' > 0 /\ ok' = (ok /\ a = "success")
        /\ a \notin {"error", "running"}
    BY <1>2, <1>9, WentOn
  <2>2. SyncInv' /\ OutcomeOfExecution' /\ RunningOf' = {}
    BY <1>2, <1>3, <1>5, <1>6, <2>1 DEF SyncInv, Fresh, OutcomeOfExecution, Returning, shape
  <2>3. ASSUME ~shuffled
        PROVE  ResumeInv'
    <3>1. Covers(Memory)
      BY <1>1, <2>3 DEF ResumeInv
    <3>2. \A i \in 1..pos - 1 : Memory'[order[i]] = Memory[order[i]]
      BY <1>5, Before
    <3>3. /\ pos' \in pos + 1..n + 1
          /\ \A i \in 1..pos' - 1 : Passes(pos', i, Memory'[order[i]])
          /\ kind = "All" =>
               (ok /\ a = "success" <=> \A i \in 1..pos' - 1 : Memory'[order[i]] = "success")
      BY <1>5, <1>9, <2>1, <3>1, <3>2, CoverStep
    <3>4. Covers(Memory)'
      BY <1>3, <2>1, <3>3 DEF Covers, Path, Passes, shape
    <3> QED
      BY <2>2, <3>4 DEF ResumeInv
  <2>4. ASSUME ~shuffled, ~stuck
        PROVE  FinalInv'
    <3>1. /\ order[pos] = pos /\ lost = {} /\ Covers(final)
          /\ \A d \in Children : d >= pos => final[d] = "none"
      BY <2>4, OwnTickFirst
    <3>2. \A i \in 1..pos - 1 : final'[order[i]] = final[order[i]]
      BY <1>4, Before
    <3>3. /\ pos' \in pos + 1..n + 1
          /\ \A i \in 1..pos' - 1 : Passes(pos', i, final'[order[i]])
          /\ kind = "All" =>
               (ok /\ a = "success" <=> \A i \in 1..pos' - 1 : final'[order[i]] = "success")
      BY <1>4, <1>9, <2>1, <3>1, <3>2, CoverStep
    <3>4. Covers(final)'
      BY <1>3, <2>1, <3>3 DEF Covers, Path, Passes, shape
    <3>5. \A d \in Children : final'[d] # "none" => final'[d] = Memory'[d]
      <4>1. \A d \in Children : final[d] # "none" => final[d] = Memory[d]
        BY <1>1, <2>4 DEF FinalInv, InExecution
      <4> QED
        BY <1>4, <1>5, <2>1, <4>1
    <3>6. \A d \in Children : d >= pos' => final'[d] = "none"
      BY <1>4, <3>1, <3>3, OrderType DEF Children
    <3>7. lost' = {}
      BY <1>2, <2>1, <3>1
    <3> QED
      BY <1>3, <2>2, <3>4, <3>5, <3>6, <3>7 DEF FinalInv, shape, Children
  <2> QED
    BY <1>3, <2>2, <2>3, <2>4 DEF ResumeInv, FinalInv, shape
<1> QED
  BY <1>7, <1>8, <1>9

(* Every step of a node whose children Sync wraps. *)
LEMMA SyncStep ==
  ASSUME TypeOK, OrderInv, SyncInv, ResumeInv, FinalInv, OutcomeOfExecution, wrap = "sync",
         [Next]_vars
  PROVE  SyncInv' /\ ResumeInv' /\ FinalInv' /\ OutcomeOfExecution'
<1>1. CASE Begin
  BY <1>1, SyncBegin DEF Begin, OutcomeOfExecution, Returning
<1>2. CASE TickChild
  <2>1. /\ pos \in Children
        /\ \/ NilTick(order[pos]) \/ Repeat(order[pos])
           \/ \E a \in Answers : \E s \in ComesWith(a) : OwnTick(order[pos], a, s)
    BY <1>2 DEF TickChild
  <2> QED
    BY <2>1, SyncNil, SyncRepeat, SyncOwn
<1>3. CASE EndLoop
  <2>1. /\ pos' = 0 /\ ~Open' /\ pos > n /\ n \in Nat /\ pos > 0 /\ pos \in Nat
        /\ UNCHANGED <<shape, statuses, lost, stuck>>
    <3>1. pos \in Nat
      BY OrderType DEF TypeOK
    <3> QED
      BY <1>3, <3>1, EndedLoop DEF EndLoop
  <2>2. RunningOf' = RunningOf /\ \A c, d \in RunningOf : c = d
    BY <2>1, MemoryStays DEF SyncInv
  <2>3. ASSUME ~shuffled
        PROVE  RunningOf \subseteq lost
    <3>1. ASSUME NEW c \in RunningOf \ lost PROVE FALSE
      <4>1. OnTheWay(c) /\ c \in 1..n
        BY <2>1, <2>3, <3>1 DEF ResumeInv, RunningOf, Children
      <4> QED
        BY <2>1, <4>1 DEF OnTheWay
    <3> QED
      BY <3>1
  <2>4. SyncInv' /\ ResumeInv' /\ FinalInv'
    BY <2>1, <2>2, <2>3, SyncEnds DEF shape
  <2>5. CASE ~shuffled /\ ~stuck
    BY <1>3, <2>1, <2>4, <2>5, FinalEnd DEF FinalInv, InExecution
  <2>6. CASE shuffled \/ stuck
    BY <2>1, <2>4, <2>6 DEF OutcomeOfExecution, PerExecution, shape
  <2> QED
    BY <2>5, <2>6
<1>4. CASE UNCHANGED vars
  <2>1. UNCHANGED <<shape, loop, memory, result, history>>
    BY <1>4 DEF vars
  <2>2. Memory' = Memory /\ RunningOf' = RunningOf
    BY <2>1, MemoryStays DEF memory
  <2>3. SyncInv'
    BY <2>1, <2>2 DEF SyncInv, shape, loop, history, Open, Fresh
  <2>4. ResumeInv'
    BY <2>1, <2>2
    DEF ResumeInv, shape, loop, history, Open, InExecution, Covers, Path, Passes, OnTheWay
  <2>5. FinalInv'
    BY <2>1, <2>2
    DEF FinalInv, shape, loop, history, Open, InExecution, Covers, Path, Passes, Children
  <2>6. OutcomeOfExecution'
    BY <2>1 DEF OutcomeOfExecution, shape, loop, history, Open, Returning, PerExecution,
      InOrder, Children
  <2> QED
    BY <2>3, <2>4, <2>5, <2>6
<1> QED
  BY <1>1, <1>2, <1>3, <1>4 DEF Next

-----------------------------------------------------------------------------
(* All of them together. *)
LEMMA InitIInv == Init => IInv
<1> SUFFICES ASSUME Init PROVE IInv
  OBVIOUS
<1>1. TypeOK
  BY InitTypes
<1>2. RunningOf = {}
  BY DEF Init, RunningOf, Nothing
<1>3. pos = 0 /\ result = "none" /\ ~Open /\ ~InExecution
  BY DEF Init, Open, InExecution
<1>4. OrderInv /\ LoopInv /\ MemorizeInv /\ AnyInv
  BY <1>3 DEF Init, OrderInv, LoopInv, MemorizeInv, AnyInv
<1>5. SyncInv /\ ResumeInv /\ FinalInv
  BY <1>2, <1>3 DEF SyncInv, ResumeInv, FinalInv
<1>6. OutcomeOfTick /\ OutcomeOfExecution /\ AnySucceeds
  BY <1>3 DEF OutcomeOfTick, OutcomeOfExecution, AnySucceeds, Returning
<1> QED
  BY <1>1, <1>4, <1>5, <1>6 DEF IInv

(* What a node is made of stays the same. *)
LEMMA ShapeStays == TypeOK /\ [Next]_vars => shape' = shape
<1> SUFFICES ASSUME TypeOK, [Next]_vars PROVE shape' = shape
  OBVIOUS
<1>1. CASE TickChild
  BY <1>1, Ticked DEF Answer
<1> QED
  BY <1>1 DEF Next, Begin, EndLoop, vars

(* The others have nothing in the memory of Sync. *)
LEMMA OtherStep ==
  ASSUME TypeOK, SyncInv, wrap \notin {"memorize", "sync"}, [Next]_vars
  PROVE  SyncInv' /\ OutcomeOfExecution'
<1>1. shape' = shape
  BY ShapeStays
<1>2. statuses' = statuses
  <2>1. ASSUME TickChild PROVE statuses' = statuses
    BY <2>1 DEF TickChild, NilTick, Repeat, OwnTick
  <2> QED
    BY <2>1 DEF Next, Begin, EndLoop, vars, memory
<1>3. RunningOf' = RunningOf
  BY <1>1, <1>2 DEF RunningOf, shape, Children
<1> QED
  BY <1>1, <1>3 DEF SyncInv, OutcomeOfExecution, PerExecution, shape

LEMMA NextIInv == IInv /\ [Next]_vars => IInv'
<1> SUFFICES ASSUME IInv, [Next]_vars PROVE IInv'
  OBVIOUS
<1>1. /\ TypeOK /\ OrderInv /\ LoopInv /\ MemorizeInv /\ SyncInv /\ ResumeInv /\ FinalInv
      /\ AnyInv /\ OutcomeOfTick /\ OutcomeOfExecution /\ AnySucceeds
  BY DEF IInv
<1>2. shape' = shape /\ wrap' = wrap
  BY <1>1, ShapeStays DEF shape
<1>3. TypeOK' /\ OrderInv' /\ LoopInv' /\ OutcomeOfTick' /\ AnyInv' /\ AnySucceeds'
  BY <1>1, NextTypes, OrderStep, LoopStep, OutcomeStep, AnyStep
<1>4. CASE wrap = "memorize"
  <2>1. statuses' = statuses /\ RunningOf = {}
    <3>1. ASSUME TickChild PROVE statuses' = statuses
      BY <1>4, <3>1 DEF TickChild, NilTick, Repeat, OwnTick
    <3> QED
      BY <1>1, <1>4, <3>1 DEF Next, Begin, EndLoop, vars, memory, SyncInv
  <2>2. RunningOf' = {}
    BY <1>2, <2>1 DEF RunningOf, shape, Children
  <2>3. SyncInv' /\ ResumeInv' /\ FinalInv'
    BY <1>2, <1>4, <2>2 DEF SyncInv, ResumeInv, FinalInv
  <2> QED
    BY <1>1, <1>3, <1>4, <2>3, MemorizeStep DEF IInv
<1>5. CASE wrap = "sync"
  <2>1. MemorizeInv'
    BY <1>2, <1>5 DEF MemorizeInv
  <2> QED
    BY <1>1, <1>3, <1>5, <2>1, SyncStep DEF IInv
<1>6. CASE wrap \notin {"memorize", "sync"}
  <2>1. MemorizeInv' /\ ResumeInv' /\ FinalInv'
    BY <1>2, <1>6 DEF MemorizeInv, ResumeInv, FinalInv
  <2> QED
    BY <1>1, <1>3, <1>6, <2>1, OtherStep DEF IInv
<1> QED
  BY <1>4, <1>5, <1>6

(* For every composite, wrapper, number of children and history of ticks. *)
THEOREM Invariance == Spec => []IInv
<1> QED
  BY InitIInv, NextIInv, PTL DEF Spec

(* Every tick returns what the comments of the composites say of the answers it
   got (sequence.go:19-20, selector.go:19-20, all.go:19-21, switch.go:19-23),
   under Memorize, Sync and Any, too, inverted by Not (not.go:19-20). *)
THEOREM TickOutcome == Spec => []OutcomeOfTick
<1>1. IInv => OutcomeOfTick
  BY DEF IInv
<1> QED
  BY <1>1, Invariance, PTL

(* With Memorize, and with Sync in a fixed order, an execution returns what its
   children's own results amount to (memorize.go:19-21). *)
THEOREM ExecutionOutcome == Spec => []OutcomeOfExecution
<1>1. IInv => OutcomeOfExecution
  BY DEF IInv
<1> QED
  BY <1>1, Invariance, PTL

(* A success in any tick of the execution counts for Any (any.go:21-22). *)
THEOREM AnySuccess == Spec => []AnySucceeds
<1>1. IInv => AnySucceeds
  BY DEF IInv
<1> QED
  BY <1>1, Invariance, PTL

(* Sync is not left disabled by an execution that is over, but for a child that
   ran when one had no tick, and for one whose tick said running along with an
   error (sync.go:64-79). *)
THEOREM Released == Spec => []SyncReleases
<1>1. ASSUME IInv, Returning, ~Open, ~shuffled, NEW c \in Children, statuses[c] = "running"
      PROVE  c \in lost
  <2>1. c \in RunningOf /\ wrap = "sync" /\ ~InExecution
    BY <1>1 DEF IInv, SyncInv, RunningOf, Returning, InExecution
  <2> QED
    BY <1>1, <2>1 DEF IInv, ResumeInv
<1>2. IInv => SyncReleases
  BY <1>1 DEF SyncReleases
<1> QED
  BY <1>2, Invariance, PTL

(* Only the tick of a child is recorded as one. *)
LEMMA RealStep ==
  ASSUME TypeOK, [Next]_vars, NEW c \in real', c \notin real
  PROVE  \E a, s : OwnTick(order[pos], a, s) /\ c = order[pos] /\ pos \in Children
<1>1. CASE TickChild
  BY <1>1 DEF TickChild, NilTick, Repeat, OwnTick
<1> QED
  BY <1>1 DEF Next, Begin, Forget, EndLoop, vars, history

(* The status that ends the execution of a child is cached for the one of the
   node (memorize.go:19, sync.go:19-22). *)
THEOREM FinalStatusKept == Spec => NoTickAfterFinal
<1>1. ASSUME IInv, [Next]_vars, NEW c \in real' \ real, PerExecution
      PROVE  final[c] = "none"
  <2>1. PICK a, s : OwnTick(order[pos], a, s) /\ c = order[pos] /\ pos \in Children
    BY <1>1, RealStep DEF IInv
  <2>2. CASE wrap = "memorize"
    BY <1>1, <2>1, <2>2, OrderType
    DEF IInv, MemorizeInv, InExecution, OwnTick, Enabled, Children
  <2>3. CASE wrap = "sync" /\ ~shuffled /\ ~stuck
    BY <1>1, <2>1, <2>3, OwnTickFirst, OrderType DEF IInv, Children
  <2> QED
    BY <1>1, <2>2, <2>3 DEF PerExecution
<1>2. IInv /\ [Next]_vars => [\A c \in real' \ real : PerExecution => final[c] = "none"]_vars
  BY <1>1
<1> QED
  BY <1>2, Invariance, PTL DEF Spec, NoTickAfterFinal

(* The next tick that is called is that of the child that kept the node running
   (memorize.go:19-21, sync.go:21-22). *)
THEOREM RunningResumed == Spec => ResumesRunning
<1> DEFINE Resumes == (wrap = "sync" \/ (wrap = "memorize" /\ ~shuffled)) =>
                        (Open /\ real = {} => real' \subseteq {runner})
<1>1. ASSUME IInv, [Next]_vars, Open, real = {}, NEW c \in real',
             wrap = "sync" \/ (wrap = "memorize" /\ ~shuffled)
      PROVE  c = runner
  <2>1. PICK a, s : OwnTick(order[pos], a, s) /\ c = order[pos] /\ pos \in Children
    BY <1>1, RealStep DEF IInv
  <2>2. n \in Nat /\ pos \in 1..n /\ order[pos] \in Children
    BY <1>1, <2>1, OrderType DEF IInv, Children
  <2>3. CASE wrap = "sync"
    <3>1. runner \in RunningOf
      BY <1>1, <2>3 DEF IInv, SyncInv, Fresh
    <3>2. c \in RunningOf
      BY <2>1, <2>2, <2>3, <3>1 DEF OwnTick, Enabled, RunningOf
    <3> QED
      BY <1>1, <3>1, <3>2 DEF IInv, SyncInv
  <2>4. CASE wrap = "memorize" /\ ~shuffled
    <3>1. /\ runner \in Children /\ Path(runner, final) /\ OnTheWay(runner)
          /\ override = final
      BY <1>1, <2>2, <2>4 DEF IInv, MemorizeInv, Fresh, InExecution
    <3>2. order[pos] = pos /\ final[pos] = "none"
      BY <1>1, <2>1, <2>4, <3>1 DEF IInv, OrderInv, OwnTick, Enabled
    <3>3. ASSUME pos # runner PROVE FALSE
      <4>1. pos \in 1..runner - 1
        BY <2>2, <3>1, <3>3 DEF OnTheWay, Children
      <4>2. Passes(runner, pos, "none")
        BY <3>1, <3>2, <4>1 DEF Path
      <4>3. kind = "Switch" => pos % 2 = 1
        BY <2>2, <3>1, <3>3, Parity DEF OnTheWay
      <4> QED
        BY <4>2, <4>3 DEF Passes, Answers
    <3> QED
      BY <2>1, <3>2, <3>3
  <2> QED
    BY <1>1, <2>3, <2>4
<1>2. IInv /\ [Next]_vars => [Resumes]_vars
  BY <1>1
<1> QED
  BY <1>2, Invariance, PTL DEF Spec, ResumesRunning
=============================================================================
