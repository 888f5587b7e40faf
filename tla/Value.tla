------------------------------- MODULE Value -------------------------------
(***************************************************************************)
(* value.go: Node.Value asks a node for a value by expanding it, and       *)
(* UseValueProvider, called by nodes that are being expanded, answers      *)
(* through package variables.                                              *)
(*                                                                         *)
(* A member of Procs is a goroutine that queries nodes, or just expands    *)
(* them, as a Ticker does all the time.  An expansion calls                *)
(* UseValueProvider for one provider after the other, the outermost first; *)
(* what they answer is up to them.  An expansion of a query may panic, or  *)
(* query another node.                                                     *)
(***************************************************************************)
EXTENDS Naturals

CONSTANTS
  Procs,         \* the goroutines
  Keys,          \* the keys queries are about
  MaxProviders,  \* bound on the providers of one expansion
  Channels,      \* names of channels, used again when nobody has them: enough
                 \* for one to be free, or Prep would have to wait
  None           \* the nil key, value or channel, and a free mutex

VARIABLES
  pc,              \* where each goroutine is
  inQuery,         \* the goroutines that have valueSync in their call stack
  key,             \* the argument of the query each makes
  providers,       \* how many providers its expansion has used
  dataKey,         \* the local variables of UseValueProvider
  dataChan,
  valueCallMutex,  \* who holds it
  valueDataKey,
  valueDataChan,
  valueActive,
  buffer,          \* what each channel holds, its capacity being one
  value,           \* the local variable of valueSync
  first            \* history: the outermost answer to that query

stack   == <<pc, inQuery, key, providers>>
locals  == <<dataKey, dataChan>>
package == <<valueCallMutex, valueDataKey, valueDataChan, valueActive>>
vars == <<stack, locals, package, buffer, value, first>>

(* A value: whose provider it is of, which one, and for which key. *)
Values == Procs \X (1..MaxProviders) \X Keys

ASSUME ValueAssumption ==
  /\ MaxProviders \in Nat
  /\ None \notin Procs \cup Keys \cup Channels \cup Values

Labels == {"idle", "lock", "prep", "expand", "read", "ask", "send", "receive", "clear"}

TypeOK ==
  /\ pc \in [Procs -> Labels]
  /\ inQuery \subseteq Procs
  /\ key \in [Procs -> Keys \cup {None}]
  /\ providers \in [Procs -> 0..MaxProviders]
  /\ dataKey \in [Procs -> Keys \cup {None}]
  /\ dataChan \in [Procs -> Channels \cup {None}]
  /\ valueCallMutex \in Procs \cup {None}
  /\ valueDataKey \in Keys \cup {None}
  /\ valueDataChan \in Channels \cup {None}
  /\ valueActive \in BOOLEAN
  /\ buffer \in [Channels -> Values \cup {None}]
  /\ value \in [Procs -> Values \cup {None}]
  /\ first \in [Procs -> Values \cup {None}]

Init ==
  /\ pc = [p \in Procs |-> "idle"]
  /\ inQuery = {}
  /\ key = [p \in Procs |-> None]
  /\ providers = [p \in Procs |-> 0]
  /\ dataKey = [p \in Procs |-> None]
  /\ dataChan = [p \in Procs |-> None]
  /\ valueCallMutex = None
  /\ valueDataKey = None
  /\ valueDataChan = None
  /\ valueActive = FALSE
  /\ buffer = [ch \in Channels |-> None]
  /\ value = [p \in Procs |-> None]
  /\ first = [p \in Procs |-> None]

At(p, label) == pc[p] = label
Goto(p, label) == pc' = [pc EXCEPT ![p] = label]

Set(f, p, v) == [f EXCEPT ![p] = v]

-----------------------------------------------------------------------------
(* Node.Value, valueSync and valuePrep *)

Query(p, k) ==
  /\ At(p, "idle")
  /\ key' = Set(key, p, k)
  /\ Goto(p, "lock")
  /\ UNCHANGED <<inQuery, providers, locals, package, buffer, value, first>>

(* Mutant: the mutex protects the package variables only. *)
LockNothing(p) ==
  /\ At(p, "lock")
  /\ valueCallMutex' = p
  /\ inQuery' = inQuery \cup {p}
  /\ Goto(p, "prep")
  /\ UNCHANGED <<key, providers, locals, valueDataKey, valueDataChan, valueActive,
                 buffer, value, first>>

Lock(p) ==
  /\ At(p, "lock")
  /\ valueCallMutex = None
  /\ valueCallMutex' = p
  /\ inQuery' = inQuery \cup {p}
  /\ Goto(p, "prep")
  /\ UNCHANGED <<key, providers, locals, valueDataKey, valueDataChan, valueActive,
                 buffer, value, first>>

InUse == {valueDataChan} \cup {dataChan[p] : p \in Procs}

(* A new channel is one that nobody has; it is empty. *)
NewChannel == CHOOSE ch \in Channels \ InUse : TRUE

(* Under valueDataMutex, which hides everything between. *)
Prep(p) ==
  /\ At(p, "prep")
  /\ Channels \ InUse # {}
  /\ valueDataKey' = key[p]
  /\ valueDataChan' = NewChannel
  /\ buffer' = [ch \in Channels |-> IF ch \in InUse THEN buffer[ch] ELSE None]
  /\ valueActive' = TRUE
  /\ Goto(p, "expand")
  /\ UNCHANGED <<inQuery, key, providers, locals, valueCallMutex, value, first>>

(* The expansion is over: valuePrep returns. *)
Expanded(p) ==
  /\ At(p, "expand")
  /\ p \in inQuery
  /\ valueActive' = FALSE
  /\ Goto(p, "receive")
  /\ UNCHANGED <<inQuery, key, providers, locals, valueCallMutex, valueDataKey,
                 valueDataChan, buffer, value, first>>

Receive(p) ==
  /\ At(p, "receive")
  /\ value' = Set(value, p, buffer[valueDataChan])
  /\ buffer' = Set(buffer, valueDataChan, None)
  /\ Goto(p, "clear")
  /\ UNCHANGED <<inQuery, key, providers, locals, package, first>>

(* The frames of the query, and what they hold, are gone. *)
Leave(p) ==
  /\ inQuery' = inQuery \ {p}
  /\ key' = Set(key, p, None)
  /\ providers' = Set(providers, p, 0)
  /\ value' = Set(value, p, None)
  /\ first' = Set(first, p, None)
  /\ Goto(p, "idle")

Return(p) ==
  /\ At(p, "clear")
  /\ valueDataKey' = None
  /\ valueDataChan' = None
  /\ valueCallMutex' = None
  /\ Leave(p)
  /\ UNCHANGED <<locals, valueActive, buffer>>

(* A node that is being expanded for a query makes one itself, and is to lock
   the mutex which the goroutine holds. *)
Nest(p) ==
  /\ At(p, "expand")
  /\ p \in inQuery
  /\ Goto(p, "lock")
  /\ UNCHANGED <<inQuery, key, providers, locals, package, buffer, value, first>>

(* Mutant: the mutex is not unlocked by a deferred call. *)
PanicStaysLocked(p) ==
  /\ p \in inQuery
  /\ pc[p] \in {"expand", "ask"}
  /\ valueActive' = FALSE
  /\ dataKey' = Set(dataKey, p, None)
  /\ dataChan' = Set(dataChan, p, None)
  /\ Leave(p)
  /\ UNCHANGED <<valueCallMutex, valueDataKey, valueDataChan, buffer>>

(* The node panics: the deferred calls are made, the rest of valueSync is not. *)
Panic(p) ==
  /\ p \in inQuery
  /\ pc[p] \in {"expand", "ask"}
  /\ valueActive' = FALSE
  /\ valueCallMutex' = None
  /\ dataKey' = Set(dataKey, p, None)
  /\ dataChan' = Set(dataChan, p, None)
  /\ Leave(p)
  /\ UNCHANGED <<valueDataKey, valueDataChan, buffer>>

-----------------------------------------------------------------------------
(* An expansion that is not for a query *)

Expand(p) ==
  /\ At(p, "idle")
  /\ Goto(p, "expand")
  /\ UNCHANGED <<inQuery, key, providers, locals, package, buffer, value, first>>

ExpandReturns(p) ==
  /\ At(p, "expand")
  /\ p \notin inQuery
  /\ providers' = Set(providers, p, 0)
  /\ Goto(p, "idle")
  /\ UNCHANGED <<inQuery, key, locals, package, buffer, value, first>>

-----------------------------------------------------------------------------
(* UseValueProvider *)

CheckActive(p) ==
  /\ At(p, "expand")
  /\ providers[p] < MaxProviders
  /\ providers' = Set(providers, p, providers[p] + 1)
  /\ Goto(p, IF valueActive THEN "read" ELSE "expand")
  /\ UNCHANGED <<inQuery, key, locals, package, buffer, value, first>>

(* Under valueDataMutex *)
Read(p) ==
  /\ At(p, "read")
  /\ dataKey' = Set(dataKey, p, valueDataKey)
  /\ dataChan' = Set(dataChan, p, valueDataChan)
  /\ Goto(p, IF valueDataChan = None THEN "expand" ELSE "ask")
  /\ UNCHANGED <<inQuery, key, providers, package, buffer, value, first>>

(* UseValueProvider returns to the expansion. *)
Back(p) ==
  /\ dataKey' = Set(dataKey, p, None)
  /\ dataChan' = Set(dataChan, p, None)
  /\ Goto(p, "expand")

(* The provider has no value for the key. *)
Decline(p) ==
  /\ At(p, "ask")
  /\ Back(p)
  /\ UNCHANGED <<inQuery, key, providers, package, buffer, value, first>>

(* What it provides for the key it was asked for. *)
Provided(p) == <<p, providers[p], dataKey[p]>>

Provide(p) ==
  /\ At(p, "ask")
  /\ first' = IF p \in inQuery /\ first[p] = None THEN Set(first, p, Provided(p)) ELSE first
  /\ Goto(p, "send")
  /\ UNCHANGED <<inQuery, key, providers, locals, package, buffer, value>>

(* Mutant: nobody looks at the call stack. *)
SendAnyway(p) ==
  /\ At(p, "send")
  /\ buffer' = IF buffer[dataChan[p]] = None
                 THEN Set(buffer, dataChan[p], Provided(p)) ELSE buffer
  /\ Back(p)
  /\ UNCHANGED <<inQuery, key, providers, package, value, first>>

(* The value is sent if the query is found in the call stack, and there is
   room in the channel. *)
Send(p) ==
  /\ At(p, "send")
  /\ buffer' = IF p \in inQuery /\ buffer[dataChan[p]] = None
                 THEN Set(buffer, dataChan[p], Provided(p)) ELSE buffer
  /\ Back(p)
  /\ UNCHANGED <<inQuery, key, providers, package, value, first>>

-----------------------------------------------------------------------------
UseValueProvider(p) == CheckActive(p) \/ Read(p) \/ Decline(p) \/ Provide(p) \/ Send(p)

Step(p) ==
  \/ Lock(p) \/ Prep(p) \/ Expanded(p) \/ Receive(p) \/ Return(p)
  \/ ExpandReturns(p)
  \/ UseValueProvider(p)

Next ==
  \E p \in Procs :
    \/ \E k \in Keys : Query(p, k)
    \/ Expand(p)
    \/ Nest(p)
    \/ Step(p)
    \/ Panic(p)

Spec == Init /\ [][Next]_vars

(* Expansions come to an end, and a sync.Mutex is handed over to a goroutine *)
(* that has waited for long.                                                 *)
FairSpec == Spec /\ \A p \in Procs : WF_vars(Step(p)) /\ SF_vars(Lock(p))

-----------------------------------------------------------------------------
(* A query returns the value that the outermost provider of its own expansion
   gave for its own key, or nil if none did (value.go:152-154): nothing of
   another goroutine that expands a node at the same time, of an inner
   provider, or of a query before, also one that ended in a panic. *)
QueryAnswer ==
  \A p \in Procs : At(p, "clear") =>
    /\ value[p] = first[p]
    /\ value[p] # None => value[p][3] = key[p]

Nested(p) == p \in inQuery /\ At(p, "lock")

(* "In the absence of an in-progress Node.Value call, the cost of this function
   is trivial" (value.go:155): the flag is up only while a query expands its
   node, however that ends. *)
ActiveOnlyInQuery ==
  valueActive => \E p \in inQuery : Nested(p) \/ pc[p] \in {"expand", "read", "ask", "send"}

(* Why: one goroutine is inside a query and owns the package variables; what
   its expansion has provided first is in its channel, or about to be sent. *)
Expanding(p) == pc[p] \in {"expand", "read", "ask", "send"} \/ Nested(p)

OwnerInv ==
  /\ \A p \in Procs : p \in inQuery <=> valueCallMutex = p
  /\ \A p \in Procs : pc[p] \in {"prep", "receive", "clear"} => p \in inQuery
  /\ \A p \in Procs : At(p, "idle") => p \notin inQuery
  /\ valueActive <=> \E p \in inQuery : Expanding(p)

AnswerInv ==
  \A p \in Procs :
    /\ pc[p] = "lock" \/ p \in inQuery => key[p] # None
    /\ first[p] # None => first[p][3] = key[p]
    /\ p \notin inQuery \/ At(p, "prep") => first[p] = None
    /\ pc[p] \in {"read", "ask", "send"} => providers[p] # 0
    /\ At(p, "clear") => value[p] = first[p]
    /\ p \in inQuery /\ (Expanding(p) \/ At(p, "receive")) =>
         /\ valueDataKey = key[p]
         /\ valueDataChan # None
         /\ \/ buffer[valueDataChan] = first[p]
            \/ /\ At(p, "send")
               /\ buffer[valueDataChan] = None
               /\ first[p] = Provided(p)
    /\ p \in inQuery /\ pc[p] \in {"ask", "send"} =>
         dataKey[p] = valueDataKey /\ dataChan[p] = valueDataChan
    /\ At(p, "send") /\ p \in inQuery => first[p] # None

IInv == TypeOK /\ OwnerInv /\ AnswerInv

(* "custom Node implementations that recursively call Value during their own
   definition phase (inside n()) will deadlock" (docs/walk.md:88): such a query
   never ends, and no other goroutine begins one after it. *)
NestedQueryBlocks ==
  [][(\E p \in Procs : Nested(p)) =>
       \A q \in Procs : At(q, "lock") => At(q, "lock")']_vars

(* And nothing else can keep a query from ending: each returns or panics, as
   long as nobody nests one. *)
QueryReturns == \A p \in Procs : At(p, "lock") ~> At(p, "idle") \/ \E q \in Procs : Nested(q)
=============================================================================
