--------------------------- MODULE ContextProofs ---------------------------
(***************************************************************************)
(* That async.go runs one execution at a time and implements AsyncContract, *)
(* however many executions there are; that it goes on doing so below a      *)
(* Context, for any number of contexts; and that at most the current        *)
(* context is live.                                                         *)
(***************************************************************************)
EXTENDS Context, TLAPS

(* The next number is another one. *)
LEMMA SuccType == ASSUME NEW d \in Ids PROVE Succ(d) \in Ids \ {d}
  BY AsyncAssumption DEF Ids, Succ

LEMMA NilType == Nil \notin Ids
  BY AsyncAssumption DEF Ids, Nil

(* What is sent is not the mark of an empty channel. *)
LEMMA SentNotEmpty == Empty \notin Answers
  BY DEF Empty, Answers

LEMMA InitIInv == Init => IInv
  BY AsyncAssumption, NilType DEF Init, IInv, TypeOK, Ids, Answers

LEMMA NextIInv == IInv /\ [Next]_vars => IInv'
<1> SUFFICES ASSUME IInv, [Next]_vars PROVE IInv'
  OBVIOUS
<1> USE NilType DEF IInv, TypeOK
<1>1. CASE Start
  <2>1. last' \in Ids /\ last' # last
    BY <1>1, SuccType DEF Start
  <2>2. TypeOK'
    BY <1>1, <2>1 DEF Start, Answers
  <2> QED
    BY <1>1, <2>1, <2>2 DEF Start
<1>2. CASE Receive
  <2>1. buffer[done] \in Answers /\ done = last
    BY <1>2 DEF Receive
  <2>2. TypeOK'
    BY <1>2, <2>1 DEF Receive
  <2> QED
    BY <1>2, <2>1, <2>2 DEF Receive
<1>3. CASE Poll
  BY <1>3 DEF Poll, Answers
<1>4. ASSUME NEW d \in Ids, NEW answer \in Answers, TickReturns(d, answer) PROVE IInv'
  <2>1. d = done
    BY <1>4 DEF TickReturns
  <2>2. TypeOK'
    BY <1>4 DEF TickReturns
  <2> QED
    BY <1>4, <2>1, <2>2 DEF TickReturns
<1>5. ASSUME NEW d \in Ids, Send(d) PROVE IInv'
  <2>1. d = done
    BY <1>5 DEF Send
  <2>2. buffer'[done] \in Answers /\ buffer'[done] # Empty
    BY <1>5, <2>1, SentNotEmpty DEF Send
  <2>3. TypeOK'
    BY <1>5, <2>1, <2>2 DEF Send
  <2> QED
    BY <1>5, <2>1, <2>2, <2>3 DEF Send
<1>6. CASE UNCHANGED vars
  BY <1>6 DEF vars
<1> QED
  BY <1>1, <1>2, <1>3, <1>4, <1>5, <1>6 DEF Next, Call, Work

(* IInv holds in every reachable state of async.go. *)
THEOREM Invariance == Spec => []IInv
  BY InitIInv, NextIInv, PTL DEF Spec

(* The wrapped tick is never called while an earlier call of it goes on
   (async.go:29-35). *)
THEOREM Exclusive == Spec => []OneAtATime
<1>1. IInv => OneAtATime
  BY NilType DEF IInv, TypeOK, OneAtATime, Working
<1> QED
  BY <1>1, Invariance, PTL

(* Every step of async.go is one of the contract: what a goroutine does is seen
   when its tick returns and when the channel has the result. *)
THEOREM Implements == Spec => AsyncIsContract
<1> USE DEF Contract!Next, Contract!vars
<1>1. Init => Contract!Init
  BY DEF Init, Contract!Init, Phase, Answer
<1>2. ASSUME IInv, [Next]_vars PROVE [Contract!Next]_Contract!vars
  <2> USE <1>2, NilType DEF IInv, TypeOK
  <2>1. CASE Start
    <3>1. last' \in Ids /\ done' = last' /\ buffer'[last'] = Empty /\ work'[last'] = "ticking"
      BY <2>1, SuccType DEF Start
    <3>2. Phase = "idle" /\ Answer = "none" /\ Phase' = "ticking" /\ Answer' = "none"
      BY <2>1, <3>1 DEF Start, Phase, Answer
    <3> QED
      BY <2>1, <3>2 DEF Start, Contract!Start
  <2>2. CASE Receive
    <3>1. Phase = "ready" /\ Answer = buffer[done] /\ Phase' = "idle" /\ Answer' = "none"
      BY <2>2 DEF Receive, Phase, Answer
    <3> QED
      BY <2>2, <3>1 DEF Receive, Contract!Receive
  <2>3. CASE Poll
    <3>1. Phase \in {"ticking", "over"} /\ UNCHANGED <<Phase, Answer>>
      BY <2>3 DEF Poll, Phase, Answer
    <3> QED
      BY <2>3, <3>1 DEF Poll, Contract!Poll
  <2>4. ASSUME NEW d \in Ids, NEW answer \in Answers, TickReturns(d, answer) PROVE Contract!Finish
    <3>1. d = done /\ buffer[done] = Empty /\ work'[done] = "sending" /\ status'[done] = answer
      BY <2>4 DEF TickReturns
    <3>2. Phase = "ticking" /\ Phase' = "over" /\ Answer' = answer
      BY <2>4, <3>1 DEF TickReturns, Phase, Answer
    <3> QED
      BY <2>4, <3>2 DEF TickReturns, Contract!Finish
  <2>5. ASSUME NEW d \in Ids, Send(d) PROVE Contract!Publish
    <3>1. d = done /\ work[done] = "sending" /\ buffer[done] = Empty
      BY <2>5 DEF Send
    <3>2. buffer'[done] = status[done] /\ status[done] # Empty
      BY <2>5, <3>1, SentNotEmpty DEF Send
    <3>3. Phase = "over" /\ Answer = status[done] /\ Phase' = "ready" /\ Answer' = status[done]
      BY <2>5, <3>1, <3>2 DEF Send, Phase, Answer
    <3> QED
      BY <2>5, <3>3 DEF Send, Contract!Publish
  <2>6. CASE UNCHANGED vars
    BY <2>6 DEF vars, Phase, Answer
  <2> QED
    BY <2>1, <2>2, <2>3, <2>4, <2>5, <2>6 DEF Next, Call, Work
<1> QED
  BY <1>1, <1>2, Invariance, PTL DEF Spec, AsyncIsContract, Contract!Spec

-----------------------------------------------------------------------------
(* Every step of a tree with a Context is one of Async, or leaves it alone
   (context.go:72-77): given a context, fn is a tick like any other. *)
LEMMA StepImplements == [ContextNext]_allVars => [Next]_vars
<1> SUFFICES ASSUME [ContextNext]_allVars PROVE [Next]_vars
  OBVIOUS
<1>1. ASSUME \/ \E new \in Contexts : InitTick(new)
             \/ CancelTick \/ DoneTick \/ DoneReturns
             \/ \E d \in Ids : CallFn(d)
             \/ \E k \in Contexts : Expire(k)
      PROVE  UNCHANGED vars
  BY <1>1 DEF InitTick, CancelTick, DoneTick, DoneReturns, CallFn, Expire, ContextOnly
<1>2. CASE AsyncTick
  BY <1>2 DEF AsyncTick, Next
<1>3. ASSUME NEW d \in Ids, FnReturns(d) \/ SendResult(d) PROVE Next
  BY <1>3 DEF FnReturns, SendResult, Next, Work
<1>4. CASE UNCHANGED allVars
  BY <1>4 DEF allVars
<1> QED
  BY <1>1, <1>2, <1>3, <1>4 DEF ContextNext

(* A tree that uses a Context implements Async. *)
THEOREM Refinement == ContextSafeSpec => Spec
<1>1. ContextInit => Init
  BY DEF ContextInit
<1> QED
  BY <1>1, StepImplements, PTL DEF ContextSafeSpec, Spec

(* The tree above sees one execution at a time, and each answer once, whatever
   Init, Cancel and the expiry of a parent do (context.go:72-77). *)
THEOREM ContextImplements == ContextSafeSpec => AsyncIsContract
  BY Refinement, Implements, PTL

(* And fn is not called while an earlier call goes on, so that c.ctx is read by
   one goroutine of Async at a time (context.go:74). *)
THEOREM ExclusiveBelowContext == ContextSafeSpec => []OneAtATime
  BY Refinement, Exclusive, PTL

-----------------------------------------------------------------------------
(* Init leaves no context live but the one it makes (context.go:57-67). *)
LEMMA LiveStep == OnlyCurrentLive /\ [ContextNext]_allVars => OnlyCurrentLive'
<1> SUFFICES ASSUME OnlyCurrentLive, [ContextNext]_allVars PROVE (live \subseteq {ctx})'
  BY DEF OnlyCurrentLive
<1>1. ASSUME NEW new \in Contexts, InitTick(new) PROVE (live \subseteq {ctx})'
  BY <1>1 DEF InitTick, Cancelled, OnlyCurrentLive
<1>2. ASSUME \/ CancelTick \/ DoneTick \/ DoneReturns \/ AsyncTick
             \/ \E d \in Ids : CallFn(d) \/ FnReturns(d) \/ SendResult(d)
             \/ \E k \in Contexts : Expire(k)
             \/ UNCHANGED allVars
      PROVE  ctx' = ctx /\ live' \subseteq live
  BY <1>2 DEF CancelTick, DoneTick, DoneReturns, AsyncTick, CallFn, FnReturns, SendResult, Expire,
    ContextOnly, AsyncOnly, contextVars, allVars
<1>3. CASE ctx' = ctx /\ live' \subseteq live
  BY <1>3 DEF OnlyCurrentLive
<1> QED
  BY <1>1, <1>2, <1>3 DEF ContextNext

(* No context but the current one is ever left live, and no fn waits for one
   that nobody can cancel (context.go:28). *)
THEOREM OnlyCurrent == ContextSafeSpec => []OnlyCurrentLive
<1>1. ContextInit => OnlyCurrentLive
  BY DEF ContextInit, OnlyCurrentLive
<1> QED
  BY <1>1, LiveStep, PTL DEF ContextSafeSpec
=============================================================================
