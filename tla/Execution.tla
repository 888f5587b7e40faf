----------------------------- MODULE Execution -----------------------------
(***************************************************************************)
(* One node, ticked again and again: a composite, wrapped by one of the    *)
(* functions that keep state between ticks.                                *)
(*   plain     the composite itself                                        *)
(*   memorize  Memorize(composite)                              memorize.go *)
(*   sync      the composite over children wrapped by Sync         sync.go *)
(*   any       Any(composite)                                       any.go *)
(*   not       Not(composite)                                       not.go *)
(* With shuffled, the composite is given to Shuffle first (shuffle.go).    *)
(*                                                                         *)
(* A tick is the loop of Composites, one child after the other; what a     *)
(* child answers when its own tick is called is up to the environment.     *)
(* Nothing else ticks the children: concurrent ticks are in module Sync.   *)
(*                                                                         *)
(* An execution, as in memorize.go:19-20, lasts until the first status     *)
(* that is not running.                                                    *)
(***************************************************************************)
EXTENDS Composites, Functions

CONSTANTS
  MaxChildren,   \* bound on the number of children
  MaxShuffled,   \* the same for children in an order drawn for every tick
  Wraps          \* the wrappers to look at

ASSUME ExecutionAssumption ==
  /\ MaxChildren \in Nat
  /\ MaxShuffled \in 0..MaxChildren
  /\ Wraps \subseteq {"plain", "memorize", "sync", "any", "not"}

VARIABLES
  kind, wrap, shuffled,  \* what the node is made of
  n,          \* its number of children
  order,      \* the order in which this tick sees them
  pos,        \* the iteration of the loop; 0 between ticks
  ok,         \* the variable success of All
  started,    \* Memorize: an execution is going on
  override,   \* Memorize: the cached result of each child
  statuses,   \* Sync: the last status of each child
  success,    \* Any: a child has succeeded
  result,     \* what the last tick returned
  answered,   \* history: what each child answered in this tick
  final,      \* history: each child's own last result in this execution
  won,        \* history: the children that succeeded in this execution
  real,       \* history: the children whose own tick this tick has called
  runner,     \* history: the child that kept the last tick running, or 0
  lost,       \* history: the children of Sync that a tick which ended with an
              \* error has left marked as running
  stuck       \* history: there was one when this execution began

shape   == <<kind, wrap, shuffled, n>>
loop    == <<order, pos, ok>>
memory  == <<started, override, statuses, success>>
history == <<answered, final, won, real, runner, lost, stuck>>
vars == <<shape, loop, memory, result, history>>

Children == 1..n

Permuted == Injection(Children, Children)

Nothing == [c \in Children |-> "none"]

TypeOK ==
  /\ kind \in Kinds
  /\ wrap \in Wraps
  /\ shuffled \in BOOLEAN
  /\ n \in 0..MaxChildren
  /\ order \in Permuted
  /\ pos \in 0..n + 1
  /\ ok \in BOOLEAN
  /\ started \in BOOLEAN
  /\ override \in [Children -> (Answers \ {"running"}) \cup {"none"}]
  /\ statuses \in [Children -> (Answers \ {"error"}) \cup {"none"}]
  /\ success \in BOOLEAN
  /\ result \in Answers \cup {"none"}
  /\ answered \in [Children -> Answers \cup {"none"}]
  /\ final \in [Children -> (Answers \ {"running"}) \cup {"none"}]
  /\ won \subseteq Children
  /\ real \subseteq Children
  /\ runner \in 0..n
  /\ lost \subseteq Children
  /\ stuck \in BOOLEAN

Init ==
  /\ kind \in Kinds
  /\ wrap \in Wraps
  /\ shuffled \in BOOLEAN
  /\ n \in 0..IF shuffled THEN MaxShuffled ELSE MaxChildren
  /\ order = [i \in Children |-> i]
  /\ pos = 0
  /\ ok = TRUE
  /\ started = FALSE
  /\ override = Nothing
  /\ statuses = Nothing
  /\ success = FALSE
  /\ result = "none"
  /\ answered = Nothing
  /\ final = Nothing
  /\ won = {}
  /\ real = {}
  /\ runner = 0
  /\ lost = {}
  /\ stuck = FALSE

Open == result = "running"

-----------------------------------------------------------------------------
(* The tick is called.  Memorize wraps the children anew unless an          *)
(* execution is going on; Shuffle draws an order for every tick.            *)

(* The histories of the tick, and of the execution if it is a new one. *)
Forget ==
  /\ answered' = Nothing
  /\ real' = {}
  /\ final' = IF Open THEN final ELSE Nothing
  /\ won' = IF Open THEN won ELSE {}
  /\ stuck' = IF Open THEN stuck ELSE lost # {}
  /\ UNCHANGED <<runner, lost>>

(* Mutant: Memorize wraps the children once and for all. *)
CacheKept == override

Cache == IF started THEN override ELSE Nothing

Begin ==
  /\ pos = 0
  /\ pos' = 1
  /\ ok' = TRUE
  /\ order' \in IF shuffled THEN Permuted ELSE {order}
  /\ started' = (wrap = "memorize")
  /\ override' = Cache
  /\ Forget
  /\ UNCHANGED <<shape, statuses, success, result>>

-----------------------------------------------------------------------------
(* The composite returns value; succeeded is the flag of Any by then.       *)

(* What the wrapper makes of it. *)
Overridden(value, succeeded) ==
  CASE wrap = "any" /\ value \notin {"error", "running"} ->
         IF succeeded THEN "success" ELSE "failure"
    [] wrap = "not" -> NotReturns(value)
    [] OTHER -> value

(* Mutant: Any resets its flag when the composite is running, too. *)
FlagReset(value, succeeded) == succeeded /\ value = "error"

Flag(value, succeeded) == succeeded /\ value \in {"error", "running"}

(* Mutant: every return ends the execution of Memorize. *)
GoesOnNever(value) == FALSE

GoesOn(value) == value = "running"

Return(value, succeeded) ==
  /\ pos' = 0
  /\ started' = (started /\ GoesOn(value))
  /\ result' = Overridden(value, succeeded)
  /\ success' = Flag(value, succeeded)

(* The composite gets the answer of the child c. *)
Answer(c, a, succeeded) ==
  /\ answered' = [answered EXCEPT ![c] = a]
  /\ IF Returns(kind, n, pos, a)
       THEN /\ Return(Returned(kind, a), succeeded)
            /\ runner' = IF a = "running" THEN c ELSE 0
            /\ UNCHANGED ok
       ELSE /\ pos' = Following(kind, pos, a)
            /\ ok' = (ok /\ a = "success")
            /\ success' = succeeded
            /\ UNCHANGED <<started, result, runner>>
  /\ UNCHANGED <<shape, order, stuck>>

-----------------------------------------------------------------------------
(* What a wrapped child does when the composite ticks it.                   *)

(* Mutant: Sync only looks at the child itself. *)
EnabledAlone(c) ==
  CASE wrap = "memorize" -> override[c] = "none"
    [] OTHER -> TRUE

(* Is its own tick called? *)
Enabled(c) ==
  CASE wrap = "memorize" -> override[c] = "none"
    [] wrap = "sync" -> statuses[c] = "running" \/ \A d \in Children : statuses[d] # "running"
    [] OTHER -> TRUE

(* Node.Tick of a nil node, or of a node that comes without a tick this time.
   Memorize looks at what it has in memory before that. *)
NilTick(c) ==
  /\ wrap = "memorize" => Enabled(c)
  /\ final' = [final EXCEPT ![c] = "error"]
  /\ lost' = {d \in Children : statuses[d] = "running"}
  /\ Answer(c, "error", success)
  /\ UNCHANGED <<override, statuses, won, real>>

(* Its own tick is called, and answers a, which the status s comes with: an
   error may come with any status. *)
ComesWith(a) == IF a = "error" THEN Answers \ {"error"} ELSE {a}

(* Mutant: Sync does not record the status that comes with an error. *)
RecordedUnlessError(c, a, s) == IF a = "error" THEN statuses[c] ELSE s

(* What Sync records: the status, whether there is an error or not. *)
Recorded(c, a, s) == s

OwnTick(c, a, s) ==
  /\ Enabled(c)
  /\ override' = IF wrap = "memorize" /\ a # "running"
                    THEN [override EXCEPT ![c] = a] ELSE override
  /\ statuses' = IF wrap = "sync" THEN [statuses EXCEPT ![c] = Recorded(c, a, s)] ELSE statuses
  /\ final' = IF a = "running" THEN final ELSE [final EXCEPT ![c] = a]
  /\ won' = IF a = "success" THEN won \cup {c} ELSE won
  /\ real' = real \cup {c}
  /\ lost' = IF wrap = "sync" /\ a = "error" /\ s = "running"
                THEN lost \cup {c} ELSE lost \ {c}
  /\ Answer(c, a, success \/ (wrap = "any" /\ a = "success"))

(* It repeats what it has in memory: Sync has the zero Status for a child
   that was never ticked. *)
Remembered(c) ==
  CASE wrap = "memorize" -> override[c]
    [] OTHER -> IF statuses[c] = "none" THEN "invalid" ELSE statuses[c]

Repeat(c) ==
  /\ ~Enabled(c)
  /\ Answer(c, Remembered(c), success)
  /\ UNCHANGED <<override, statuses, final, won, real, lost>>

TickChild ==
  /\ pos \in Children
  /\ LET c == order[pos]
     IN  NilTick(c) \/ Repeat(c) \/ \E a \in Answers : \E s \in ComesWith(a) : OwnTick(c, a, s)

(* The loop is over. *)
EndLoop ==
  /\ pos > n
  /\ Return(AfterLoop(kind, ok), success)
  /\ runner' = 0
  /\ UNCHANGED <<shape, order, ok, override, statuses, answered, final, won, real, lost, stuck>>

Next == Begin \/ TickChild \/ EndLoop

Spec == Init /\ [][Next]_vars

-----------------------------------------------------------------------------
Returning == pos = 0 /\ result # "none"

InOrder(a) == [i \in Children |-> a[order[i]]]

TickedIn(b) == {i \in Children : b[i] # "none"}

(* What a composite returns is what its comment says of the answers of its
   children (sequence.go:19-20, selector.go:19-20, all.go:19-21,
   switch.go:19-23), and it ticked those it had to, and no other.  Not inverts
   what is returned (not.go:19-20), and Any only overrides what ends an
   execution. *)
OutcomeOfTick ==
  Returning =>
    LET b == InOrder(answered)
        v == Outcome(kind, n, b)
    IN  /\ TickedIn(b) = Ticks(kind, n, b)
        /\ CASE wrap = "not" -> result = Inverted[v]
             [] wrap = "any" -> v \in {"error", "running"} => result = v
             [] OTHER -> result = v

(* Sync has no notion of an execution: with an order drawn for every tick it
   answers for children that were not ticked yet, and with a child left marked
   as running by the execution before it answers for all others. *)
PerExecution == wrap = "memorize" \/ (wrap = "sync" /\ ~shuffled /\ ~stuck)

(* With Memorize, and with Sync as long as the order stays the same, the
   composite in the end returns what it would have returned if every child
   had given its final result at once (memorize.go:19-21): nothing comes from
   an earlier execution, although both keep state across them.  For Sync this
   is so if the execution before has released all children (SyncReleases says
   when it has). *)
OutcomeOfExecution ==
  (Returning /\ ~Open /\ PerExecution) =>
    result = Outcome(kind, n, InOrder(final))

(* "cache the first non-running status for each child, per execution"
   (memorize.go:19): a child that has one is not ticked itself again before
   the execution is over.  Sync does the same for children in a fixed order. *)
NoTickAfterFinal ==
  [][\A c \in real' \ real : PerExecution => final[c] = "none"]_vars

(* A running child is the next one whose own tick is called: Memorize and Sync
   skip everything before it (memorize.go:19-21, sync.go:21-22). *)
ResumesRunning ==
  [][(wrap = "sync" \/ (wrap = "memorize" /\ ~shuffled)) =>
       (Open /\ real = {} => real' \subseteq {runner})]_vars

(* When the composite has returned anything but running, Sync leaves a child
   marked as running, which disables all others, only for one of two reasons,
   both of them an error: some child, perhaps another one, came without a tick
   while it ran (sync.go:64), or its own tick has answered the status running
   along with the error (sync.go:77-78).  Otherwise the next execution is free
   to begin, whatever this one ended with. *)
SyncReleases ==
  (Returning /\ ~Open /\ ~shuffled) => \A c \in Children : statuses[c] = "running" => c \in lost

(* "overridden with a success if at least one child succeeded" (any.go:21-22):
   also if that child succeeded in an earlier tick of the execution. *)
AnySucceeds ==
  (Returning /\ wrap = "any" /\ result \notin {"error", "running"} /\ won # {})
    => result = "success"

(* The other direction: a success of Any is that of a child, in this
   execution. *)
AnyOnlyIfSucceeded ==
  (Returning /\ wrap = "any" /\ result = "success") => won # {}
=============================================================================
