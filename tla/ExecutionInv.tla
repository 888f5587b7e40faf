---------------------------- MODULE ExecutionInv ----------------------------
(* The inductive invariant behind the properties of Execution, for TLC to   *)
(* check and for ExecutionProofs to prove.                                  *)
EXTENDS Execution

(* A loop that reaches iteration p gets there past iteration i, if the child
   answers a.  The children of Switch that are not conditions are passed by. *)
Passes(p, i, a) ==
  IF kind = "Switch"
    THEN i % 2 = 1 => IF p = i + 1 THEN a = "success" ELSE a \in {"failure", "invalid"}
    ELSE a \in Answers /\ ~Returns(kind, n, i, a)

(* Answers b, in the order of this tick, that take the loop to iteration p. *)
Path(p, b) == \A i \in 1..p - 1 : Passes(p, i, b[order[i]])

(* Where the loop is, and what All knows by then, if b is what was answered. *)
Covers(b) ==
  /\ Path(pos, b)
  /\ kind = "All" => (ok <=> \A i \in 1..pos - 1 : b[order[i]] = "success")

(* The loop has iteration p before it. *)
OnTheWay(p) == pos <= p /\ (kind = "Switch" /\ pos % 2 = 0 => pos = p)

InExecution == pos > 0 \/ Open

(* The tick has not called the tick of a child yet. *)
Fresh == pos = 0 \/ real = {}

Memory == [c \in Children |-> Remembered(c)]

OrderInv == ~shuffled => order = [i \in Children |-> i]

(* The loop has not ticked any children but those on its path. *)
LoopInv ==
  pos > 0 =>
    /\ Covers(answered)
    /\ \A i \in Children :
         answered[order[i]] # "none" <=> i < pos /\ (kind = "Switch" => i % 2 = 1)

(* What Memorize has cached is what the children have answered for good; below
   the child that ran last, it has it for all. *)
MemorizeInv ==
  wrap = "memorize" =>
    /\ pos = 0 => (started <=> Open)
    /\ InExecution => override = final
    /\ pos > 0 => started /\ Covers(final)
    /\ ~shuffled /\ Open /\ Fresh =>
         /\ runner \in Children /\ final[runner] = "none"
         /\ Path(runner, final) /\ (pos > 0 => OnTheWay(runner))

RunningOf == {c \in Children : statuses[c] = "running"}

(* Sync: at most one child is running, and while the node is, there is one. *)
SyncInv ==
  /\ wrap # "sync" => RunningOf = {}
  /\ \A c, d \in RunningOf : c = d
  /\ wrap = "sync" /\ Open /\ Fresh => runner \in RunningOf

(* Sync: the loop cannot but come back to a child that is running, unless that
   child was lost. *)
ResumeInv ==
  wrap = "sync" /\ ~shuffled =>
    /\ pos > 0 => Covers(Memory)
    /\ \A c \in RunningOf \ lost :
         /\ Path(c, Memory)
         /\ InExecution
         /\ pos > 0 => OnTheWay(c)

(* Sync: its memory is the one of this execution, and none of a child that the
   loop has not come to. *)
FinalInv ==
  wrap = "sync" /\ ~shuffled /\ ~stuck /\ InExecution =>
    /\ lost = {}
    /\ pos > 0 => Covers(final)
    /\ \A c \in Children : final[c] # "none" => final[c] = Memory[c]
    /\ \A c \in RunningOf :
         /\ Path(c, final)
         /\ \A d \in Children : d >= c => final[d] = "none"
    /\ RunningOf = {} => \A d \in Children : d >= pos => final[d] = "none"

(* Any: its flag knows of every success in the execution. *)
AnyInv == wrap = "any" /\ InExecution /\ won # {} => success

IInv ==
  /\ TypeOK
  /\ OrderInv
  /\ LoopInv
  /\ MemorizeInv
  /\ SyncInv
  /\ ResumeInv
  /\ FinalInv
  /\ AnyInv
  /\ OutcomeOfTick
  /\ OutcomeOfExecution
  /\ AnySucceeds
=============================================================================
