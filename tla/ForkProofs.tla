----------------------------- MODULE ForkProofs -----------------------------
(* Proofs about Fork and Any(Fork()): the outcome of a cycle is that of its   *)
(* children, for any number of them, any order of their results and any       *)
(* number of ticks.                                                           *)
EXTENDS AnyFork, SequenceTheorems, FiniteSetTheorems, TLAPS

(* Sequences without repetition: what Append adds, and how many there are. *)
LEMMA ToSetAppend ==
  ASSUME NEW S, NEW s \in Seq(S), NEW x \in S
  PROVE  /\ Append(s, x) \in Seq(S)
         /\ ToSet(Append(s, x)) = ToSet(s) \cup {x}
         /\ IsInjective(s) /\ x \notin ToSet(s) => IsInjective(Append(s, x))
<1> DEFINE t == Append(s, x)
<1>1. /\ t \in Seq(S) /\ Len(s) \in Nat /\ DOMAIN s = 1..Len(s) /\ DOMAIN t = 1..Len(s) + 1
      /\ t[Len(s) + 1] = x
      /\ \A i \in 1..Len(s) : t[i] = s[i]
  BY AppendProperties, LenProperties
<1> HIDE DEF t
<1>2. ToSet(t) = ToSet(s) \cup {x}
  <2>1. \A i \in 1..Len(s) + 1 : t[i] \in ToSet(s) \cup {x}
    BY <1>1 DEF ToSet
  <2>2. \A y \in ToSet(s) \cup {x} : \E i \in 1..Len(s) + 1 : t[i] = y
    BY <1>1 DEF ToSet
  <2> QED
    BY <1>1, <2>1, <2>2 DEF ToSet
<1>3. IsInjective(s) /\ x \notin ToSet(s) => IsInjective(t)
  BY <1>1 DEF IsInjective, ToSet
<1> QED
  BY <1>1, <1>2, <1>3 DEF t

(* A finite sequence has finitely many members. *)
LEMMA ToSetCount ==
  ASSUME NEW S, NEW s \in Seq(S), IsInjective(s)
  PROVE  IsFiniteSet(ToSet(s)) /\ Cardinality(ToSet(s)) = Len(s)
<1>1. Len(s) \in Nat /\ s \in [1..Len(s) -> S] /\ DOMAIN s = 1..Len(s)
  BY LenProperties
<1>2. s \in Bijection(1..Len(s), ToSet(s))
  BY <1>1 DEF Bijection, Injection, Surjection, IsInjective, ToSet
<1>3. ExistsBijection(1..Len(s), ToSet(s))
  BY <1>2 DEF ExistsBijection
<1> QED
  BY <1>1, <1>3, FS_CountingElements, FS_NatBijection

(* What the empty sequence is to the quantifiers of Fork and Any. *)
LEMMA EmptySequence ==
  /\ ToSet(<<>>) = {} /\ IsInjective(<<>>) /\ Len(<<>>) = 0 /\ DOMAIN <<>> = {}
  /\ \A S : <<>> \in Seq(S)
<1>1. DOMAIN <<>> = {} /\ Len(<<>>) = 0
  OBVIOUS
<1> QED
  BY <1>1, EmptySeq DEF ToSet, IsInjective

(* The children that are out are finitely many, and none is when left is 0. *)
LEMMA TickingFinite ==
  ASSUME ForkInv
  PROVE  /\ IsFiniteSet(ticking) /\ Cardinality(ticking) \in Nat
         /\ Len(outputs) \in Nat /\ DOMAIN outputs = 1..Len(outputs)
         /\ left = 0 => ticking = {} /\ outputs = <<>>
<1>1. IsFiniteSet(Children)
  BY ForkAssumption, FS_Interval DEF Children
<1>2. IsFiniteSet(ticking) /\ Cardinality(ticking) \in Nat
  BY <1>1, FS_Subset, FS_CardinalityType DEF ForkInv, TypeOK
<1>3. Len(outputs) \in Nat /\ DOMAIN outputs = 1..Len(outputs)
  BY LenProperties DEF ForkInv, TypeOK
<1>4. ASSUME left = 0 PROVE ticking = {} /\ outputs = <<>>
  <2>1. Cardinality(ticking) = 0 /\ Len(outputs) = 0
    BY <1>2, <1>3, <1>4 DEF ForkInv, WhereInv
  <2> QED
    BY <1>2, <2>1, FS_EmptySet, EmptySeq DEF ForkInv, TypeOK
<1> QED
  BY <1>2, <1>3, <1>4

-----------------------------------------------------------------------------
(* Nothing is out, and no cycle goes on. *)
LEMMA InitFork == Init => ForkInv
<1> SUFFICES ASSUME Init PROVE ForkInv
  OBVIOUS
<1> USE EmptySequence
<1>1. TypeOK
  BY ForkAssumption DEF Init, TypeOK, Children
<1>2. WhereInv
  BY FS_EmptySet DEF Init, WhereInv, Waiting, InCycle
<1> QED
  BY <1>1, <1>2 DEF Init, CycleInv, CycleOutcome, ForkInv

(* A new cycle ticks all children, any other those left (fork.go:34-42). *)
LEMMA BeginStep ==
  ASSUME ForkInv, NEW n \in 0..MaxChildren, Begin(n)
  PROVE  ForkInv'
<1> USE EmptySequence, ForkAssumption
<1>1. /\ pc = "idle" /\ pc' = "collect" /\ left = 0 /\ ticking = {} /\ outputs = <<>>
      /\ outputs' = <<>> /\ remaining' = <<>> /\ err' = err /\ result' = result
  BY TickingFinite DEF Begin, ForkInv, TypeOK, CycleInv
<1>2. Waiting' = {}
  BY <1>1 DEF Waiting
<1>3. NewCycle <=> status = "none"
  BY DEF ForkInv, CycleInv, NewCycle
<1>4. CASE NewCycle
  <2> DEFINE all == [i \in 1..n |-> i]
  <2>1. /\ children' = n /\ final' = [c \in Children |-> "none"] /\ status' = "success"
        /\ ticking' = ToSet(all) /\ left' = Len(all)
    BY <1>1, <1>3, <1>4 DEF Begin, Note, ForkInv, CycleInv
  <2>2. n \in Nat /\ all \in Seq(1..n) /\ Len(all) = n
    <3>1. \A i \in 1..n : i \in 1..n
      OBVIOUS
    <3> QED
      BY <3>1, IsASeq
  <2>3. ToSet(all) = 1..n /\ IsInjective(all)
    BY DEF ToSet, IsInjective
  <2>4. Cardinality(ticking') = left'
    BY <2>1, <2>2, <2>3, ToSetCount
  <2> HIDE DEF all
  <2>5. ticking' = InCycle' /\ InCycle' \subseteq Children
    BY <2>1, <2>2, <2>3 DEF InCycle, Children
  <2>6. TypeOK'
    BY <1>1, <2>1, <2>2, <2>5 DEF TypeOK, ForkInv, InCycle
  <2>7. WhereInv'
    BY <1>1, <1>2, <2>1, <2>2, <2>4, <2>5 DEF WhereInv
  <2>8. CycleInv'
    <3>1. err' = <<>>
      BY <1>1, <1>4 DEF NewCycle
    <3> QED
      BY <1>1, <2>1, <2>5, <3>1 DEF CycleInv, Errors
  <2> QED
    BY <1>1, <2>6, <2>7, <2>8 DEF ForkInv, CycleOutcome
<1>5. CASE ~NewCycle
  <2>1. /\ UNCHANGED <<children, final, status>>
        /\ ticking' = ToSet(remaining) /\ left' = Len(remaining)
    BY <1>1, <1>3, <1>5 DEF Begin, Note, ForkInv, CycleInv
  <2>2. InCycle' = InCycle /\ Errors' = Errors
    BY <2>1 DEF InCycle, Errors
  <2>3. Cardinality(ticking') = left' /\ left' \in Nat
    BY <2>1, ToSetCount, LenProperties DEF ForkInv, TypeOK, WhereInv
  <2>4. ticking' = {c \in InCycle : final[c] = "none"}
    BY <1>1, <2>1 DEF ForkInv, WhereInv, Waiting
  <2>5. TypeOK'
    BY <1>1, <2>1, <2>3, <2>4 DEF TypeOK, ForkInv, InCycle, Children
  <2>6. WhereInv'
    BY <1>1, <1>2, <2>1, <2>2, <2>3, <2>4 DEF WhereInv
  <2>7. CycleInv'
    BY <1>1, <1>3, <1>5, <2>1, <2>2 DEF CycleInv, ForkInv
  <2> QED
    BY <1>1, <2>5, <2>6, <2>7 DEF ForkInv, CycleOutcome
<1> QED
  BY <1>4, <1>5

(* A child moves from ticking to outputs (fork.go:44-45). *)
LEMMA ReturnsStep ==
  ASSUME ForkInv, NEW c \in Children, NEW answer \in Answers, TickReturns(c, answer)
  PROVE  ForkInv'
<1> DEFINE output == [child |-> c, answer |-> answer]
<1>1. /\ c \in ticking /\ ticking' = ticking \ {c} /\ outputs' = Append(outputs, output)
      /\ output \in Outputs
      /\ UNCHANGED <<pc, remaining, status, err, left, result, children, final>>
  BY DEF TickReturns, Sent, Outputs
<1>2. /\ outputs' \in Seq(Outputs) /\ Len(outputs') = Len(outputs) + 1
      /\ DOMAIN outputs' = 1..Len(outputs) + 1 /\ DOMAIN outputs = 1..Len(outputs)
      /\ Len(outputs) \in Nat
      /\ outputs'[Len(outputs) + 1].child = c
      /\ \A i \in 1..Len(outputs) : outputs'[i] = outputs[i]
  BY <1>1, AppendProperties, LenProperties DEF ForkInv, TypeOK
<1> HIDE DEF output
<1>3. Waiting' = Waiting \cup {c}
  <2>1. \A x \in Waiting \cup {c} : \E i \in 1..Len(outputs) + 1 : outputs'[i].child = x
    BY <1>2 DEF Waiting
  <2>2. \A i \in 1..Len(outputs) + 1 : outputs'[i].child \in Waiting \cup {c}
    BY <1>2 DEF Waiting
  <2> QED
    BY <1>2, <2>1, <2>2 DEF Waiting
<1>4. c \notin Waiting
  BY <1>1 DEF ForkInv, WhereInv
<1>5. Cardinality(ticking') = Cardinality(ticking) - 1
  BY <1>1, TickingFinite, FS_RemoveElement
<1>6. InCycle' = InCycle /\ Errors' = Errors
  BY <1>1 DEF InCycle, Errors
<1>7. TypeOK'
  BY <1>1, <1>2 DEF ForkInv, TypeOK
<1>8. WhereInv'
  <2>1. \A i, j \in DOMAIN outputs' : outputs'[i].child = outputs'[j].child => i = j
    <3>1. \A i \in 1..Len(outputs) : outputs[i].child # c
      BY <1>2, <1>4 DEF Waiting
    <3> QED
      BY <1>2, <3>1 DEF ForkInv, WhereInv
  <2>2. left' = Cardinality(ticking') + Len(outputs')
    BY <1>1, <1>2, <1>5, TickingFinite DEF ForkInv, WhereInv
  <2> QED
    BY <1>1, <1>3, <1>4, <1>6, <2>1, <2>2 DEF ForkInv, WhereInv
<1>9. CycleInv' /\ CycleOutcome'
  BY <1>1, <1>6 DEF ForkInv, CycleInv, CycleOutcome
<1> QED
  BY <1>7, <1>8, <1>9 DEF ForkInv

(* The first output of the channel is about a child that has not finished. *)
LEMMA HeadOutput ==
  ASSUME ForkInv, Receive
  PROVE  LET c == Head(outputs).child
             answer == Head(outputs).answer
         IN  /\ c \in InCycle /\ c \in Children /\ answer \in Answers /\ final[c] = "none"
             /\ c \in Waiting /\ outputs' \in Seq(Outputs) /\ Len(outputs') = Len(outputs) - 1
             /\ Len(outputs) \in Nat \ {0}
             /\ Waiting' = Waiting \ {c}
             /\ \A i, j \in DOMAIN outputs' : outputs'[i].child = outputs'[j].child => i = j
             /\ Head(outputs) = outputs[1]
             /\ DOMAIN outputs' = 1..Len(outputs) - 1 /\ DOMAIN outputs = 1..Len(outputs)
             /\ \A i \in 1..Len(outputs) - 1 : outputs'[i] = outputs[i + 1]
<1> DEFINE c == Head(outputs).child
           answer == Head(outputs).answer
<1>1. outputs \in Seq(Outputs) /\ outputs # <<>> /\ outputs' = Tail(outputs)
  BY DEF ForkInv, TypeOK, Receive
<1>2. /\ outputs' \in Seq(Outputs) /\ Len(outputs') = Len(outputs) - 1
      /\ Len(outputs) \in Nat \ {0} /\ Head(outputs) \in Outputs
      /\ \A i \in 1..Len(outputs') : outputs'[i] = outputs[i + 1]
  BY <1>1, HeadTailProperties, EmptySeq
<1>3. Head(outputs) = outputs[1]
  BY <1>1
<1>4. DOMAIN outputs' = 1..Len(outputs) - 1 /\ DOMAIN outputs = 1..Len(outputs)
  BY <1>1, <1>2, LenProperties
<1>5. c \in Children /\ answer \in Answers
  BY <1>2 DEF Outputs
<1>6. c \in Waiting
  BY <1>2, <1>3, <1>4 DEF Waiting
<1>7. c \in InCycle /\ final[c] = "none"
  BY <1>6 DEF ForkInv, WhereInv
<1>8. \A i \in 1..Len(outputs) : outputs[i].child = c => i = 1
  BY <1>2, <1>3, <1>4 DEF ForkInv, WhereInv
<1>9. Waiting' = Waiting \ {c}
  <2>1. ASSUME NEW x \in Waiting \ {c} PROVE x \in Waiting'
    <3>1. PICK i \in 1..Len(outputs) : outputs[i].child = x
      BY <1>4, <2>1 DEF Waiting
    <3>2. i # 1
      BY <1>3, <2>1, <3>1
    <3>3. i - 1 \in 1..Len(outputs) - 1 /\ (i - 1) + 1 = i
      BY <1>2, <3>2
    <3>4. outputs'[i - 1].child = x
      BY <1>2, <3>1, <3>3
    <3> QED
      BY <1>4, <3>3, <3>4 DEF Waiting
  <2>2. ASSUME NEW i \in 1..Len(outputs) - 1 PROVE outputs'[i].child \in Waiting \ {c}
    <3>1. i + 1 \in 1..Len(outputs) /\ i + 1 # 1 /\ outputs'[i] = outputs[i + 1]
      BY <1>2
    <3> QED
      BY <1>4, <1>8, <3>1 DEF Waiting
  <2> QED
    BY <1>4, <2>1, <2>2 DEF Waiting
<1>10. \A i, j \in DOMAIN outputs' : outputs'[i].child = outputs'[j].child => i = j
  <2> SUFFICES ASSUME NEW i \in 1..Len(outputs) - 1, NEW j \in 1..Len(outputs) - 1,
                      outputs'[i].child = outputs'[j].child
               PROVE  i = j
    BY <1>4
  <2>1. i + 1 \in DOMAIN outputs /\ j + 1 \in DOMAIN outputs
    BY <1>2, <1>4
  <2>2. outputs[i + 1].child = outputs[j + 1].child
    BY <1>2
  <2>3. i + 1 = j + 1
    BY <2>1, <2>2 DEF ForkInv, WhereInv
  <2> QED
    BY <2>3
<1> QED
  BY <1>2, <1>3, <1>4, <1>5, <1>6, <1>7, <1>9, <1>10

(* It leaves the channel for the children to tick again, or for those that have
   finished (fork.go:46-67). *)
LEMMA ReceiveStep == ForkInv /\ Receive => ForkInv'
<1> SUFFICES ASSUME ForkInv, Receive PROVE ForkInv'
  OBVIOUS
<1> DEFINE c == Head(outputs).child
           answer == Head(outputs).answer
<1>1. /\ c \in InCycle /\ c \in Children /\ answer \in Answers /\ final[c] = "none"
      /\ c \in Waiting /\ outputs' \in Seq(Outputs) /\ Len(outputs') = Len(outputs) - 1
      /\ Len(outputs) \in Nat \ {0}
      /\ Waiting' = Waiting \ {c}
      /\ \A i, j \in DOMAIN outputs' : outputs'[i].child = outputs'[j].child => i = j
  BY HeadOutput
<1>2. /\ pc = "collect" /\ left \in Nat /\ left > 0 /\ left' = left - 1
      /\ err' = Combined(c, answer)
      /\ remaining' = ToTick(c, answer)
      /\ status' = IF answer \in {"running", "success"} THEN status ELSE "failure"
      /\ final' = IF answer = "running" THEN final ELSE [final EXCEPT ![c] = answer]
      /\ UNCHANGED <<pc, ticking, result, children>>
  BY DEF Receive, ForkInv, TypeOK
<1> HIDE DEF c, answer
<1>3. /\ status # "none" /\ IsInjective(err) /\ ToSet(err) = Errors
      /\ status = "failure" <=> \E x \in InCycle : final[x] \notin {"none", "success"}
  BY <1>2 DEF ForkInv, CycleInv
<1>4. /\ IsInjective(remaining) /\ c \notin ToSet(remaining)
      /\ remaining \in Seq(Children) /\ err \in Seq(Children) /\ c \notin ToSet(err)
  BY <1>1, <1>3 DEF ForkInv, WhereInv, TypeOK, Errors
<1>5. /\ InCycle' = InCycle /\ InCycle \subseteq Children
      /\ final \in [Children -> (Answers \ {"running"}) \cup {"none"}]
  BY <1>2, ForkAssumption DEF InCycle, Children, ForkInv, TypeOK
<1>6. /\ remaining' \in Seq(Children) /\ IsInjective(remaining')
      /\ ToSet(remaining') = IF answer = "running" THEN ToSet(remaining) \cup {c}
                                                  ELSE ToSet(remaining)
  <2>1. /\ Append(remaining, c) \in Seq(Children)
        /\ ToSet(Append(remaining, c)) = ToSet(remaining) \cup {c}
        /\ IsInjective(Append(remaining, c))
    BY <1>1, <1>4, ToSetAppend
  <2> QED
    BY <1>2, <1>4, <2>1 DEF ToTick
<1>7. /\ err' \in Seq(Children) /\ IsInjective(err')
      /\ ToSet(err') = IF answer = "error" THEN ToSet(err) \cup {c} ELSE ToSet(err)
  <2>1. /\ Append(err, c) \in Seq(Children)
        /\ ToSet(Append(err, c)) = ToSet(err) \cup {c}
        /\ IsInjective(Append(err, c))
    BY <1>1, <1>3, <1>4, ToSetAppend
  <2> QED
    BY <1>2, <1>3, <1>4, <2>1 DEF Combined
<1>8. \A x \in InCycle : final'[x] = IF x = c /\ answer # "running" THEN answer ELSE final[x]
  BY <1>2, <1>5
<1>9. TypeOK'
  <2>1. final' \in [Children -> (Answers \ {"running"}) \cup {"none"}]
    BY <1>1, <1>2, <1>5
  <2>2. status' \in {"none", "success", "failure"} /\ left' \in Nat
    BY <1>2 DEF ForkInv, TypeOK
  <2> QED
    BY <1>1, <1>2, <1>6, <1>7, <2>1, <2>2 DEF ForkInv, TypeOK
<1>10. WhereInv'
  <2>1. left' = Cardinality(ticking') + Len(outputs')
    BY <1>1, <1>2, TickingFinite DEF ForkInv, WhereInv
  <2>2. {x \in InCycle' : final'[x] = "none"}
          = IF answer = "running" THEN {x \in InCycle : final[x] = "none"}
            ELSE {x \in InCycle : final[x] = "none"} \ {c}
    BY <1>1, <1>5, <1>8 DEF Answers
  <2>3. /\ ToSet(remaining') \cap (ticking' \cup Waiting') = {}
        /\ ticking' \cap Waiting' = {}
    BY <1>1, <1>2, <1>6 DEF ForkInv, WhereInv
  <2>4. ToSet(remaining') \cup ticking' \cup Waiting' = {x \in InCycle' : final'[x] = "none"}
    BY <1>1, <1>2, <1>6, <2>2 DEF ForkInv, WhereInv
  <2> QED
    BY <1>1, <1>6, <2>1, <2>3, <2>4 DEF WhereInv
<1>11. CycleInv'
  <2>1. ToSet(err') = Errors'
    BY <1>1, <1>3, <1>5, <1>7, <1>8 DEF Errors
  <2>2. status' = "failure" <=> \E x \in InCycle' : final'[x] \notin {"none", "success"}
    <3>1. CASE answer \in {"running", "success"}
      BY <1>1, <1>2, <1>3, <1>5, <1>8, <3>1
    <3>2. CASE answer \notin {"running", "success"}
      BY <1>1, <1>2, <1>5, <1>8, <3>2 DEF Answers
    <3> QED
      BY <3>1, <3>2
  <2>3. status' # "none" /\ pc' = "collect"
    BY <1>2, <1>3
  <2> QED
    BY <1>7, <2>1, <2>2, <2>3 DEF CycleInv
<1> QED
  BY <1>2, <1>9, <1>10, <1>11 DEF ForkInv, CycleOutcome

(* All have reported: those in remaining are those that have not finished, and
   without any the variables sum up the cycle (fork.go:69-75). *)
LEMMA EndStep == ForkInv /\ End => ForkInv'
<1> SUFFICES ASSUME ForkInv, End PROVE ForkInv'
  OBVIOUS
<1> USE EmptySequence
<1>1. /\ pc = "collect" /\ pc' = "idle" /\ left = 0 /\ ticking = {} /\ outputs = <<>>
      /\ UNCHANGED <<remaining, left, ticking, outputs, children, final>>
  BY TickingFinite DEF End, Collected
<1>2. InCycle' = InCycle /\ Errors' = Errors /\ Waiting' = Waiting /\ Waiting = {}
  BY <1>1 DEF InCycle, Errors, Waiting
<1>3. /\ status \in {"success", "failure"} /\ ToSet(err) = Errors /\ err \in Seq(Children)
      /\ status = "failure" <=> \E x \in InCycle : final[x] \notin {"none", "success"}
  BY <1>1 DEF ForkInv, CycleInv, TypeOK
<1>4. ToSet(remaining) = {x \in InCycle : final[x] = "none"}
  BY <1>1, <1>2 DEF ForkInv, WhereInv
<1>5. WhereInv'
  BY <1>1, <1>2 DEF ForkInv, WhereInv
<1>6. CASE remaining = <<>>
  <2>1. err' = <<>> /\ status' = "none" /\ result' = Value
    BY <1>6 DEF End, ErrAfter
  <2>2. err # <<>> <=> Errors # {}
    <3>1. ASSUME err # <<>> PROVE 1 \in DOMAIN err
      BY <1>3, <3>1, EmptySeq, LenProperties
    <3> QED
      BY <1>3, <3>1 DEF ToSet
  <2>3. \A x \in InCycle : final[x] # "none"
    BY <1>4, <1>6
  <2>4. result' = IF Errors # {} THEN "error"
                  ELSE IF \A x \in InCycle : final[x] = "success" THEN "success" ELSE "failure"
    <3>1. CASE Errors # {}
      BY <2>1, <2>2, <3>1 DEF Value
    <3>2. CASE Errors = {}
      BY <1>3, <2>1, <2>2, <2>3, <3>2 DEF Value
    <3> QED
      BY <3>1, <3>2
  <2>5. CycleOutcome'
    BY <1>1, <1>2, <2>3, <2>4 DEF CycleOutcome
  <2>6. CycleInv'
    BY <1>1, <1>6, <2>1, <2>4 DEF CycleInv
  <2>7. TypeOK'
    BY <1>1, <2>1, <2>4 DEF ForkInv, TypeOK
  <2> QED
    BY <1>5, <2>5, <2>6, <2>7 DEF ForkInv
<1>7. CASE remaining # <<>>
  <2>1. err' = err /\ status' = status /\ result' = "running"
    BY <1>7 DEF End, ErrAfter
  <2>2. TypeOK' /\ CycleInv' /\ CycleOutcome'
    BY <1>1, <1>2, <2>1 DEF ForkInv, TypeOK, CycleInv, CycleOutcome
  <2> QED
    BY <1>5, <2>2 DEF ForkInv
<1> QED
  BY <1>6, <1>7

(* So every step of Fork keeps its invariant. *)
LEMMA NextFork == ForkInv /\ [Next]_vars => ForkInv'
<1> SUFFICES ASSUME ForkInv, [Next]_vars PROVE ForkInv'
  OBVIOUS
<1>1. ASSUME NEW n \in 0..MaxChildren, Begin(n) PROVE ForkInv'
  BY <1>1, BeginStep
<1>2. ASSUME NEW c \in Children, Child(c) PROVE ForkInv'
  BY <1>2, ReturnsStep DEF Child
<1>3. CASE Receive
  BY <1>3, ReceiveStep
<1>4. CASE End
  BY <1>4, EndStep
<1>5. CASE UNCHANGED vars
  BY <1>5 DEF vars, ForkInv, TypeOK, WhereInv, Waiting, CycleInv, CycleOutcome, InCycle, Errors
<1> QED
  BY <1>1, <1>2, <1>3, <1>4, <1>5 DEF Next

(* For any number of children, orders and ticks. *)
THEOREM Invariance == Spec => []ForkInv
  BY InitFork, NextFork, PTL DEF Spec

-----------------------------------------------------------------------------
(* That Fork is what it promises: one lemma for each kind of step. *)

(* A call of the tick starts a cycle, or goes on with the children left
   (fork.go:34-42). *)
LEMMA BeginContract ==
  ASSUME ForkInv, NEW n \in 0..MaxChildren, Begin(n)
  PROVE  Contract!Start \/ Contract!Continue
<1> USE EmptySequence, ForkAssumption
<1>1. /\ pc = "idle" /\ pc' = "collect" /\ ticking = {} /\ outputs = <<>>
      /\ outputs' = <<>> /\ remaining' = <<>> /\ result' = result
  BY TickingFinite DEF Begin, ForkInv, CycleInv
<1>2. Waiting' = {} /\ ToSet(remaining') = {}
  BY <1>1 DEF Waiting
<1>3. NewCycle <=> result # "running"
  BY <1>1 DEF ForkInv, CycleInv, NewCycle
<1>4. CASE NewCycle
  <2> DEFINE all == [i \in 1..n |-> i]
  <2>1. ticking' = ToSet(all) /\ children' = n /\ final' = [c \in Children |-> "none"]
    BY <1>3, <1>4 DEF Begin, Note
  <2>2. ToSet(all) = 1..n /\ 1..n \subseteq Children
    BY DEF ToSet, Children
  <2> HIDE DEF all
  <2>3. Failures' = {} /\ Errors' = {}
    BY <2>1, <2>2 DEF Failures, Errors, InCycle
  <2> QED
    BY <1>1, <1>2, <1>3, <1>4, <2>1, <2>2, <2>3 DEF Contract!Start
<1>5. CASE ~NewCycle
  <2>1. ticking' = ToSet(remaining) /\ UNCHANGED <<children, final>>
    BY <1>3, <1>5 DEF Begin, Note
  <2>2. Failures' = Failures /\ Errors' = Errors
    BY <2>1 DEF Failures, Errors, InCycle
  <2> QED
    BY <1>1, <1>2, <1>3, <1>5, <2>1, <2>2 DEF Contract!Continue
<1> QED
  BY <1>4, <1>5

(* That a goroutine has sent is not visible: its child is among those that have
   yet to answer until the result is received (fork.go:44-45). *)
LEMMA ReturnsContract ==
  ASSUME ForkInv, NEW c \in Children, NEW answer \in Answers, TickReturns(c, answer)
  PROVE  UNCHANGED Contract!vars
<1> DEFINE output == [child |-> c, answer |-> answer]
<1>1. /\ c \in ticking /\ ticking' = ticking \ {c} /\ outputs' = Append(outputs, output)
      /\ output \in Outputs /\ output.child = c
      /\ UNCHANGED <<pc, remaining, result, children, final>>
  BY DEF TickReturns, Sent, Outputs
<1> HIDE DEF output
<1>2. /\ Len(outputs) \in Nat
      /\ DOMAIN outputs' = 1..Len(outputs) + 1 /\ DOMAIN outputs = 1..Len(outputs)
      /\ outputs'[Len(outputs) + 1].child = c
      /\ \A i \in 1..Len(outputs) : outputs'[i] = outputs[i]
  BY <1>1, AppendProperties, LenProperties DEF ForkInv, TypeOK
<1>3. Waiting' = Waiting \cup {c}
  <2>1. \A x \in Waiting \cup {c} : \E i \in 1..Len(outputs) + 1 : outputs'[i].child = x
    BY <1>2 DEF Waiting
  <2>2. \A i \in 1..Len(outputs) + 1 : outputs'[i].child \in Waiting \cup {c}
    BY <1>2 DEF Waiting
  <2> QED
    BY <1>2, <2>1, <2>2 DEF Waiting
<1>4. (ticking \cup Waiting)' = ticking \cup Waiting
  BY <1>1, <1>3
<1>5. Failures' = Failures /\ Errors' = Errors
  BY <1>1 DEF Failures, Errors, InCycle
<1> QED
  BY <1>1, <1>4, <1>5 DEF Contract!vars

(* The answer of a child counts when it is received, whoever sent before and
   after it (fork.go:46-67). *)
LEMMA ReceiveContract ==
  ASSUME ForkInv, Receive
  PROVE  \E c \in Children, answer \in Answers : Contract!Answer(c, answer)
<1> DEFINE c == Head(outputs).child
           answer == Head(outputs).answer
<1>1. /\ c \in InCycle /\ c \in Children /\ answer \in Answers /\ final[c] = "none"
      /\ c \in Waiting /\ Waiting' = Waiting \ {c}
  BY HeadOutput
<1>2. /\ pc = "collect" /\ UNCHANGED <<pc, ticking, result, children>>
      /\ remaining' = ToTick(c, answer)
      /\ final' = IF answer = "running" THEN final ELSE [final EXCEPT ![c] = answer]
  BY DEF Receive
<1> HIDE DEF c, answer
<1>3. (ticking \cup Waiting)' = (ticking \cup Waiting) \ {c}
  BY <1>1, <1>2 DEF ForkInv, WhereInv
<1>4. ToSet(remaining') = IF answer = "running" THEN ToSet(remaining) \cup {c}
                          ELSE ToSet(remaining)
  <2>1. remaining \in Seq(Children)
    BY DEF ForkInv, TypeOK
  <2>2. ToSet(Append(remaining, c)) = ToSet(remaining) \cup {c}
    BY <1>1, <2>1, ToSetAppend
  <2> QED
    BY <1>2, <2>2 DEF ToTick
<1>5. \A x \in InCycle : final'[x] = IF x = c /\ answer # "running" THEN answer ELSE final[x]
  BY <1>2, ForkAssumption DEF InCycle, Children, ForkInv, TypeOK
<1>6. /\ Failures' = IF answer \in {"failure", "invalid"} THEN Failures \cup {c} ELSE Failures
      /\ Errors' = IF answer = "error" THEN Errors \cup {c} ELSE Errors
  BY <1>1, <1>2, <1>5 DEF Failures, Errors, InCycle
<1>7. Contract!Answer(c, answer)
  BY <1>1, <1>2, <1>3, <1>4, <1>6 DEF Contract!Answer
<1> QED
  BY <1>1, <1>7

(* What status and err come to is what the children did (fork.go:69-75). *)
LEMMA EndContract ==
  ASSUME ForkInv, End
  PROVE  Contract!Return
<1>1. /\ pc = "collect" /\ pc' = "idle" /\ ticking = {} /\ outputs = <<>>
      /\ UNCHANGED <<remaining, ticking, outputs, children, final>>
  BY TickingFinite DEF End, Collected
<1>2. Waiting = {} /\ Waiting' = Waiting /\ InCycle' = InCycle /\ Errors' = Errors
      /\ Failures' = Failures
  BY <1>1, EmptySequence DEF Waiting, InCycle, Errors, Failures
<1>3. /\ status \in {"success", "failure"} /\ ToSet(err) = Errors /\ err \in Seq(Children)
      /\ status = "failure" <=> Failures \cup Errors # {}
  <2>1. \A x \in InCycle : final[x] \in (Answers \ {"running"}) \cup {"none"}
    BY ForkAssumption DEF InCycle, Children, ForkInv, TypeOK
  <2> QED
    BY <1>1, <2>1 DEF ForkInv, CycleInv, TypeOK, Failures, Errors, Answers
<1>4. (err # <<>> <=> Errors # {}) /\ (remaining # <<>> <=> ToSet(remaining) # {})
  <2>1. ASSUME NEW s \in Seq(Children) PROVE s # <<>> <=> ToSet(s) # {}
    <3>1. s # <<>> => 1 \in DOMAIN s
      BY EmptySeq, LenProperties
    <3> QED
      BY <3>1, EmptySequence DEF ToSet
  <2> QED
    BY <1>3, <2>1 DEF ForkInv, TypeOK
<1>5. result' = IF remaining # <<>> THEN "running" ELSE Value
  BY DEF End
<1>6. result' = IF ToSet(remaining) # {} THEN "running"
                ELSE IF Errors # {} THEN "error"
                ELSE IF Failures # {} THEN "failure" ELSE "success"
  BY <1>3, <1>4, <1>5 DEF Value
<1> QED
  BY <1>1, <1>2, <1>6 DEF Contract!Return

(* Each step of the caller and the goroutines is one of the contract, or none. *)
LEMMA StepContract == ForkInv /\ [Next]_vars => [Contract!Next]_Contract!vars
<1> SUFFICES ASSUME ForkInv, [Next]_vars PROVE [Contract!Next]_Contract!vars
  OBVIOUS
<1>1. ASSUME NEW n \in 0..MaxChildren, Begin(n) PROVE Contract!Next
  BY <1>1, BeginContract DEF Contract!Next
<1>2. ASSUME NEW c \in Children, Child(c) PROVE UNCHANGED Contract!vars
  BY <1>2, ReturnsContract DEF Child
<1>3. CASE Receive
  BY <1>3, ReceiveContract DEF Contract!Next
<1>4. CASE End
  BY <1>4, EndContract DEF Contract!Next
<1>5. CASE UNCHANGED vars
  BY <1>5 DEF vars, Contract!vars, Waiting, Failures, Errors, InCycle
<1> QED
  BY <1>1, <1>2, <1>3, <1>4, <1>5 DEF Next

(* Fork is what its comment says, for any number of children, whatever the
   order and the tick in which they finish (fork.go:23-26). *)
THEOREM Implements == Spec => ForkIsContract
<1>1. Init => Contract!Init
  BY EmptySequence DEF Init, Contract!Init, Waiting, Failures, Errors, InCycle
<1> QED
  BY <1>1, StepContract, Invariance, PTL DEF Spec, ForkIsContract, Contract!Spec

-----------------------------------------------------------------------------
(* Any(Fork()) *)

(* What Any adds leaves Fork alone (any.go:32-69 only wraps the children). *)
LEMMA AnyIsFork == [AnyNext]_allVars => [Next]_vars
<1> SUFFICES ASSUME [AnyNext]_allVars PROVE [Next]_vars
  OBVIOUS
<1>1. ASSUME NEW n \in 0..MaxChildren, AnyBegin(n) PROVE Next
  BY <1>1 DEF AnyBegin, Next
<1>2. ASSUME NEW c \in Children, AnyChild(c) PROVE Next
  BY <1>2 DEF AnyChild, Child, Next
<1>3. CASE AnyReceive \/ AnyEnd
  BY <1>3 DEF AnyReceive, AnyEnd, Next
<1>4. CASE UNCHANGED allVars
  BY <1>4 DEF allVars
<1> QED
  BY <1>1, <1>2, <1>3, <1>4 DEF AnyNext

(* So Fork goes on doing what it promises below Any. *)
THEOREM Refinement == AnySpec => Spec
<1>1. AnyInit => Init
  BY DEF AnyInit
<1> QED
  BY <1>1, AnyIsFork, PTL DEF AnySpec, Spec

(* Fork is what it promises below Any, too, which wraps the children
   (any.go:33-54). *)
THEOREM AnyImplements == AnySpec => ForkIsContract
  BY Refinement, Implements, PTL

(* Every error, failure and success of a cycle counts, and nothing else does
   (fork.go:25-26). *)
THEOREM Outcome == AnySpec => []CycleOutcome
<1>1. ForkInv => CycleOutcome
  BY DEF ForkInv
<1> QED
  BY <1>1, Refinement, Invariance, PTL

(* Errors are combined across ticks, each once (fork.go:48-54). *)
THEOREM Errored == AnySpec => []ErrorsKept
<1>1. ForkInv => ErrorsKept
  BY DEF ForkInv, CycleInv, ErrorsKept, NewCycle
<1> QED
  BY <1>1, Refinement, Invariance, PTL

(* No goroutine and no result outlives a tick, and exactly the children that
   are running are ticked next (fork.go:65-69). *)
THEOREM LeftBehind == AnySpec => []NothingLeftBehind
<1>1. ForkInv => NothingLeftBehind
  <2> SUFFICES ASSUME ForkInv, pc = "idle"
               PROVE  /\ ticking = {} /\ outputs = <<>> /\ IsInjective(remaining)
                      /\ ToSet(remaining) = {c \in InCycle : final[c] = "none"}
    BY DEF NothingLeftBehind
  <2>1. ticking = {} /\ outputs = <<>>
    BY TickingFinite DEF ForkInv, CycleInv
  <2>2. Waiting = {}
    BY <2>1, EmptySequence DEF Waiting
  <2> QED
    BY <2>1, <2>2 DEF ForkInv, WhereInv
<1> QED
  BY <1>1, Refinement, Invariance, PTL

-----------------------------------------------------------------------------
(* Nothing is remembered yet. *)
LEMMA InitAny == AnyInit => AnyInv
  BY EmptySequence DEF AnyInit, Init, AnyInv, Queued

(* The flag is set by whoever succeeds (any.go:46-50), kept while the cycle goes
   on and after an error (any.go:56-61), and reset otherwise (any.go:67). *)
LEMMA AnyStep == ForkInv /\ AnyInv /\ [AnyNext]_allVars => AnyInv'
<1> SUFFICES ASSUME ForkInv, AnyInv, [AnyNext]_allVars PROVE AnyInv'
  OBVIOUS
<1>1. ASSUME NEW n \in 0..MaxChildren, AnyBegin(n) PROVE AnyInv'
  <2>1. outputs = <<>> /\ outputs' = outputs /\ success' = success /\ credit' = credit
    BY <1>1, TickingFinite DEF AnyBegin, Begin, anyVars, ForkInv, CycleInv
  <2>2. CASE NewCycle
    <3>1. status = "none" /\ result # "running"
      BY <1>1, <2>2 DEF NewCycle, ForkInv, CycleInv, TypeOK, AnyBegin, Begin
    <3>2. ~SucceededInCycle'
      BY <1>1, <3>1, ForkAssumption
      DEF AnyBegin, Begin, Note, SucceededInCycle, ForkInv, TypeOK, Children
    <3> QED
      BY <2>1, <3>1, <3>2, EmptySequence DEF AnyInv, Queued
  <2>3. CASE ~NewCycle
    <3>1. status # "none" /\ result = "running" /\ status' = status
      BY <1>1, <2>3 DEF NewCycle, ForkInv, CycleInv, TypeOK, AnyBegin, Begin
    <3>2. SucceededInCycle' = SucceededInCycle
      BY <1>1, <3>1 DEF AnyBegin, Begin, Note, SucceededInCycle
    <3> QED
      BY <2>1, <3>1, <3>2 DEF AnyInv, Queued
  <2> QED
    BY <2>2, <2>3
<1>2. ASSUME NEW c \in Children, AnyChild(c) PROVE AnyInv'
  <2>1. PICK answer \in Answers :
          TickReturns(c, answer) /\ success' = (success \/ answer = "success")
    BY <1>2 DEF AnyChild
  <2>2. credit' = credit /\ status' = status /\ SucceededInCycle' = SucceededInCycle
    BY <1>2, <2>1 DEF AnyChild, TickReturns, SucceededInCycle
  <2> DEFINE output == [child |-> c, answer |-> answer]
  <2>3. outputs' = Append(outputs, output) /\ output \in Outputs /\ output.answer = answer
    BY <2>1 DEF TickReturns, Sent, Outputs
  <2> HIDE DEF output
  <2>4. /\ DOMAIN outputs' = 1..Len(outputs) + 1 /\ DOMAIN outputs = 1..Len(outputs)
        /\ Len(outputs) \in Nat
        /\ outputs'[Len(outputs) + 1].answer = answer
        /\ \A i \in 1..Len(outputs) : outputs'[i] = outputs[i]
    BY <2>3, AppendProperties, LenProperties DEF ForkInv, TypeOK
  <2>5. Queued' <=> Queued \/ answer = "success"
    BY <2>4 DEF Queued
  <2> QED
    BY <2>1, <2>2, <2>5 DEF AnyInv
<1>3. CASE AnyReceive
  <2> DEFINE c == Head(outputs).child
             answer == Head(outputs).answer
  <2>1. Receive /\ success' = success /\ credit' = credit
    BY <1>3 DEF AnyReceive, anyVars
  <2>2. /\ c \in InCycle /\ c \in Children /\ answer \in Answers /\ final[c] = "none"
        /\ Head(outputs) = outputs[1] /\ Len(outputs) \in Nat \ {0}
        /\ DOMAIN outputs' = 1..Len(outputs) - 1 /\ DOMAIN outputs = 1..Len(outputs)
        /\ \A i \in 1..Len(outputs) - 1 : outputs'[i] = outputs[i + 1]
    BY <2>1, HeadOutput
  <2>3. /\ final' = IF answer = "running" THEN final ELSE [final EXCEPT ![c] = answer]
        /\ status # "none" /\ status' # "none" /\ InCycle' = InCycle /\ InCycle \subseteq Children
    BY <2>1, ForkAssumption DEF Receive, ForkInv, CycleInv, TypeOK, InCycle, Children
  <2>4. answer = outputs[1].answer
    BY <2>2
  <2> HIDE DEF c, answer
  <2>5. SucceededInCycle' <=> SucceededInCycle \/ answer = "success"
    <3>1. \A x \in InCycle : final'[x] = IF x = c /\ answer # "running" THEN answer ELSE final[x]
      BY <2>2, <2>3 DEF ForkInv, TypeOK
    <3> QED
      BY <2>2, <2>3, <3>1 DEF SucceededInCycle, InCycle
  <2>6. Queued <=> Queued' \/ answer = "success"
    <3>1. ASSUME NEW i \in 1..Len(outputs), outputs[i].answer = "success", i # 1
          PROVE  Queued'
      <4>1. i - 1 \in 1..Len(outputs) - 1 /\ (i - 1) + 1 = i
        BY <2>2, <3>1
      <4> QED
        BY <2>2, <3>1, <4>1 DEF Queued
    <3>2. ASSUME NEW i \in 1..Len(outputs) - 1, outputs'[i].answer = "success"
          PROVE  Queued
      <4>1. i + 1 \in 1..Len(outputs)
        BY <2>2
      <4> QED
        BY <2>2, <3>2, <4>1 DEF Queued
    <3>3. 1 \in 1..Len(outputs)
      BY <2>2
    <3> QED
      BY <2>2, <2>4, <3>1, <3>2, <3>3 DEF Queued
  <2> QED
    BY <2>1, <2>3, <2>5, <2>6 DEF AnyInv
<1>4. CASE AnyEnd
  <2>1. /\ outputs = <<>> /\ outputs' = <<>> /\ status # "none"
        /\ SucceededInCycle' = SucceededInCycle
    BY <1>4, TickingFinite DEF AnyEnd, End, Collected, ForkInv, CycleInv, SucceededInCycle
  <2>2. success <=> credit \/ SucceededInCycle
    BY <2>1, EmptySequence DEF AnyInv, Queued
  <2>3. /\ success' = (success /\ Remembers(result'))
        /\ credit' = CASE result' = "running" -> credit
                       [] result' = "error"   -> credit \/ SucceededInCycle
                       [] OTHER               -> FALSE
    BY <1>4 DEF AnyEnd
  <2>4. CASE result' = "running"
    <3>1. status' = status
      BY <1>4, <2>4 DEF AnyEnd, End, Value, ForkInv, TypeOK
    <3> QED
      BY <2>1, <2>2, <2>3, <2>4, <3>1, EmptySequence DEF AnyInv, Queued, Remembers
  <2>5. CASE result' # "running"
    <3>1. status' = "none"
      BY <1>4, <2>5 DEF AnyEnd, End
    <3>2. success' \in BOOLEAN /\ (success' <=> credit')
      BY <2>2, <2>3, <2>5 DEF Remembers, AnyInv
    <3> QED
      BY <2>1, <3>1, <3>2, EmptySequence DEF AnyInv, Queued
  <2> QED
    BY <2>4, <2>5
<1>5. CASE UNCHANGED allVars
  BY <1>5 DEF allVars, vars, anyVars, AnyInv, Queued, SucceededInCycle
<1> QED
  BY <1>1, <1>2, <1>3, <1>4, <1>5 DEF AnyNext

(* The flag of Any is what its history says it is, whatever Fork below it does
   (any.go:32-69). *)
THEOREM AnyInvariance == AnySpec => [](ForkInv /\ AnyInv)
<1>1. AnyInit => AnyInv
  BY InitAny
<1> QED
  BY <1>1, AnyStep, Refinement, Invariance, PTL DEF AnySpec

(* Any overrides what Fork returns exactly if a child has succeeded in the
   cycle, or in one before that ended with an error (any.go:21-22, any.go:56). *)
THEOREM Overridden == AnySpec => CycleOverridden
<1>1. ASSUME ForkInv, AnyInv, AnyEnd, result' \notin {"error", "running"}
      PROVE  anyResult' = "success" <=> credit \/ SucceededInCycle
  <2>1. outputs = <<>> /\ status # "none"
    BY <1>1, TickingFinite DEF AnyEnd, End, Collected, ForkInv, CycleInv
  <2>2. success <=> credit \/ SucceededInCycle
    BY <1>1, <2>1, EmptySequence DEF AnyInv, Queued
  <2>3. anyResult' = IF success THEN "success" ELSE "failure"
    BY <1>1 DEF AnyEnd
  <2> QED
    BY <2>2, <2>3
<1>2. ForkInv /\ AnyInv /\ [AnyNext]_allVars
      => [(AnyEnd /\ result' \notin {"error", "running"}) =>
            (anyResult' = "success" <=> credit \/ SucceededInCycle)]_allVars
  BY <1>1
<1> QED
  BY <1>2, AnyInvariance, PTL DEF AnySpec, CycleOverridden
=============================================================================
