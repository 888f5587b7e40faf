# A verification of go-behaviortree

`behaviortree` (Go, package at the root of the repository) is a library of
behaviour trees: a `Node` is a function that returns a `Tick` and children, a
`Tick` is a function of the children that returns a `Status` and an error.
Everything else is functions that build ticks out of ticks, and the goroutines
that tick trees: `Ticker` and `Manager`.

This directory holds TLA+ modules that model those parts of the package that
keep state or run concurrently, TLC configurations that check them on small
instances, and proofs that TLAPS checks for every value of the constants.
`PROJECT.json` is the index: components, runs, mutants, the lines of the source
each definition translates, hazards, findings and theorems.

## 1. The system

| Component | Source | State | Operations | Used by / uses |
|---|---|---|---|---|
| Node, Tick, Status | behaviortree.go, factory.go | none | `Node.Tick`, `Tick.Frame`, `Status.Status`; `New`, `NewNode` | everything |
| Sequence, Selector, All, Switch | sequence.go, selector.go, all.go, switch.go | none between calls | a loop over the children | call `Node.Tick` of children |
| Not | not.go | none | inverts a status | wraps a tick |
| Memorize | memorize.go | `started`, the wrapped children of the execution, one cached result each | a tick | wraps a composite; replaces its children |
| Sync | sync.go | mutex, last status of every node of the group | expanding a node, calling its tick | wraps nodes, which may be ticked by several goroutines |
| Any | any.go | mutex, flag `success` | a tick; the children it wraps set the flag | wraps a composite |
| Shuffle | shuffle.go | none (a random source) | a tick | wraps a composite |
| Fork | fork.go | `remaining`, `status`, `err`, and per tick a channel and one goroutine per child | a tick | ticks children concurrently |
| Async | async.go | `done`: the channel of the execution going on | a tick | runs a tick in a goroutine |
| Background | background.go | a list of nodes that are running | a tick | ticks nodes it made in earlier calls |
| Context | context.go | the context and cancel function of the execution | `Init`, `Tick`, `Cancel`, `Err`, `Done` | gives ticks a context; meant to go with Async |
| RateLimit | ratelimit.go | time of the last success | a tick | clock |
| Ticker | ticker.go | node, `time.Ticker`, context, `stop`, `done`, `once`, `err` | `NewTicker`, `NewTickerStopOnFailure`, `Done`, `Err`, `Stop`; goroutine `run` | ticks a node; given to Manager |
| Manager | manager.go | `stop`, `done`, `errs`, `once`, a `bigbuff.Worker`, channel `tickers` | `Add`, `Stop`, `Done`, `Err`; goroutines `handle` and `run` | aggregates Tickers, is one |
| Value | value.go | package variables: a mutex, the key, channel and call stack of the query going on | `Node.Value`, `Node.WithValue`, `UseValueProvider` ... | expands nodes; a handshake over a channel |
| Metadata | metadata.go | none | names, structure, `Node.Walk`, `Node.Children` | Value |
| Frame | frame.go | none | finds out where a node or a tick was defined | runtime.Callers |
| Printer | printer.go | none | draws a tree | Frame, Value, expands nodes |

How they interact.  A `Ticker` calls `Node.Tick` of the root at each tick of a
clock; that call expands the node and calls its tick with the children; the
ticks of composites call `Node.Tick` of the children.  Stateful ticks keep
their state in variables of a closure, so the state lives as long as the tick
does and is shared by everyone who calls it.  `Manager.Add` hands a ticker over
to a goroutine `handle` by way of the goroutine `run`, which exists only while
somebody holds a release function of `manager.worker`
(`github.com/joeycumines/go-bigbuff`, outside the repository).

What is hard.

* *Manager*: four kinds of goroutines; `Add` decides in two selects; `done` is
  closed by a worker that can be started again after the end; `Stop` waits in a
  `sync.Once` for a worker that waits for `handle`, which calls `Stop`.
* *Ticker*: `select` chooses at random between the context, the stop channel
  and the clock; `run` calls `Stop` that a user may be in the middle of.
* *Sync*: whether a node may run is decided when it is expanded and used later,
  with the mutex released in between.
* *Async*: the goroutine sends to a variable, not to a channel of its own.
* *Fork*: results in any order over several ticks, into variables that also say
  whether a cycle is going on; nothing may be left over of a tick for the next.
* *Memorize, Any*: what must survive from tick to tick, and what must not.
* *Background*: a slice cut while it is ranged over, and ticks that end before
  the newer nodes had their turn.
* *Context*: a context replaced and cancelled by one goroutine while another
  waits for it, or is about to read which one it is.
* *Value*: a protocol between goroutines over package variables, in which only
  the call stack tells whose query it is; a mutex held while user code runs.
* *Metadata, Printer*: two trees in one, what the nodes are made of and what
  they claim to be, with nodes that may be shared or nil.

What makes each component correct, and where that is stated:

| Component | Property | In the project |
|---|---|---|
| Composites | a tick returns what the comment says of the answers of the children, ticks those it has to for that, and no other | `OutcomeOfTick` |
| Memorize | an execution gives what one tick with final answers would; a finished child is not ticked again; nothing is left over from the last execution | `OutcomeOfExecution`, `NoTickAfterFinal`, `ResumesRunning` |
| Sync | one group is one execution at a time, released when it is over unless an error kept a child marked; several goroutines cannot set more nodes running than there are goroutines; ticks return | `OutcomeOfExecution`, `SyncReleases`, `RunningBounded`, `TicksReturn` |
| Any | success if and only if a child succeeded in the execution, also with children that finish concurrently | `AnySucceeds` (if), `AnyOnlyIfSucceeded` (only if: violated), `CycleOverridden` |
| Fork | a tick asks all children, or those still running, and a cycle's result is about all of them; errors are combined; what is left are the children still running; no goroutine outlives a tick | `ForkIsContract`, `ErrorsKept`, `NothingLeftBehind`, `TickEnds` |
| Async | one execution at a time; its result is returned, once, to the next call; no goroutine leaks | `OneAtATime`, `AsyncIsContract`, `ExecutionsEnd` |
| Ticker | the Ticker contract; `Err` is the cause; no tick after stop or error; everything freed when done; every cause leads to done | `TickerIsTicker`, `ErrIsTheCause`, `NoTickAfterStop`, `NoTickAfterError`, `FreedWhenDone`, `TickerEnds` |
| Manager | the Ticker contract; quiescent and errors complete when done; late Adds refused, with the cause; no panic; errors stop it; Stop returns and ends it | `ManagerIsTicker`, `QuiescentWhenDone`, `ErrorsCompleteWhenDone`, `LateAddRefused`, `RefusalNamesCause`, `NoPanic`, `ErrorStopsManager`, `StopReturns`, `StopLeadsToDone` |
| Background | the list holds exactly the nodes that are running, each once, from oldest to newest; none is left out for ever | `ListIsAlive`, `OldestFirst`, `NoStarvation` |
| Context | only the current context is live; cancelling reaches whoever waits; with a timeout everything ends | `OnlyCurrentLive`, `CancelReachesFn`, `ExecutionsEnd` |
| RateLimit | two successes are at least the duration apart, which keeps the list of Background short | `GrowthBounded` |
| Value | a query gets the outermost answer of its own expansion or nil, never anything of another query or goroutine; nobody is asked without a query; every query returns, unless one is made inside another | `QueryAnswer`, `ActiveOnlyInQuery`, `QueryReturns`, `NestedQueryBlocks` |
| Not | success and failure change places, nothing else does | `OutcomeOfTick` |
| Metadata | Walk visits the conceptual tree depth-first, stops when told, and visits valid nodes only | `WalkVisitsLogicalTree`, `WalkVisitsWhatIsDrawn`, `OnlyValidVisited` (does not hold, section 4) |
| Printer | the drawing tells the tree | `DrawingTellsTree` |

## 2. Modules

`TickerContract`, `ForkContract` and `AsyncContract` (abstract), then per component a
specification, a module with its inductive invariant where that is long, a
module with proofs, and an MC module for TLC.

    TickerContract        what a Ticker promises
      ^            ^      (INSTANCE ... WITH, a refinement mapping each)
    Manager       Ticker
      ^             ^
    ManagerInv    TickerInv          IInv
      ^     ^       ^     ^
    MCManager |   MCTicker |
      ManagerProofs   TickerProofs

    Composites <- Execution                    loops and reference definitions;
                    ^                          a node ticked again and again
                  ExecutionInv <- MCExecution, ExecutionProofs
    Sync  <- MCSync, WrapperProofs
    ForkContract          what the comment of Fork promises
      ^                   (INSTANCE ... WITH a refinement mapping)
    Fork  <- AnyFork <- MCFork, ForkProofs     Any(Fork())
    AsyncContract         what the caller of an Async tick sees
      ^                   (INSTANCE ... WITH a refinement mapping)
    Async <- Context <- MCContext, ContextProofs
                                               Async(c.Tick(fn)) and c's ticks
    Background, RateLimit <- Jobs <- MCJobs, WrapperProofs
                                               Sequence(RateLimit, Background)
    Value <- MCValue, MetadataProofs
    Walk  <- MetadataProofs                    with lemmas on sequences
      ^
    Introspection <- MCIntrospection           Walk and the printer
      ^
    IntrospectionProofs -> MetadataProofs

**TickerContract.**  The `Ticker` interface (ticker.go:28-37): `working`,
`stopping`, `err`, `done`.  No work begins and no error appears once `done` is
closed, an error is not taken back, and `done` closes only after stopping
began and while nothing is working.

**Manager** (manager.go:72-163).  A slot of `Callers` is a goroutine that calls
`Add`; an accepted call leaves the slot to the `handle` goroutine of that
ticker until it returns.  `pc` labels are the points between two operations
that other goroutines can tell apart: in `Add` after `worker.Do` (`check`,
`send`), around the release (`reject`, `report`); in `handle` the select
(`watch`), the wait (`await`), reading the error (`collect`), `append`, the
call of `Stop`, `release`; in `Stop` the close of the channel (`stop`),
`worker.Do` (`stopStart`), the release (`stopDone`).  `run` is the worker
goroutine: `select`, `stopped` (its stop channel was received), `closing` (it
found `manager.stop` closed and not yet `done`).  `errs` holds the ticker an
error came from.  Tickers are the environment, by the contract: each may finish
at any time, with or without an error, whether it was asked to or not; a nil
ticker is refused (`AddNil`).  A ticker may be added twice.

*bigbuff.Worker* is external and modelled from what manager.go needs of it:
`Do` returns a release function and makes sure that one goroutine executes
`run`; when the last release function is called that goroutine's stop channel
closes; a `Do` that finds the goroutine told to stop waits until it has
returned.  Releasing never blocks.  So at most one `run` exists at any time,
which is what makes "look at `done`, then close it" (manager.go:132-136) safe.
`refs` is the set of release functions not yet called.

**Ticker** (ticker.go:71-168).  `Runner` executes `run`, with a label for the
select, the tick, storing the error, the calls of `Stop` and `cancel` and the
close of `done`; `Stoppers` call `Stop`, also when the ticker is long over.
`sync.Once` is `new`, `busy`, `complete`.  `time.Ticker` is two booleans.
go.mod asks for a Go (1.23 or later) whose timer channels never hold a stale
value after `Stop`; that is why `EnterStop` clears `ready`.
`tickerStopOnFailure` is the flag `stopOnFailure` with its own tick
(`TickErr`) and its own `Err`.

**Composites, Execution.**  `Composites` has one operator for each decision in
the four loops, and below it the reference definitions: what the comments of
the four functions say a whole pass returns (`Outcome`) and which children it
ticks (`Ticks`), written over all answers at once without a loop.  `Execution`
ticks one composite again and again, its children answering anything, wrapped by
nothing, `Memorize`, `Sync`, `Any` or `Not`, with or without `Shuffle`.  An action is the start of a tick (`Begin`), one iteration
of the loop (`NilTick`, `OwnTick`, `Repeat`: the wrapper of the child decides)
or the code after the loop (`EndLoop`); each carries out everything the code
does there, `Return` included, which is what the deferred functions and the
outer tick do.  A child of the
composite may come without a tick at any iteration, whatever it did before
(`NilTick`).  `final`, `won`, `real`, `runner`, `answered`, `lost` and `stuck` are
histories; the last two remember when a tick that ended with an error left a
child of Sync marked as running: because some child came without a tick, or
because its own tick answered running along with the error (`OwnTick` has the
answer and the status it comes with, which Sync records; section 4).

**Sync** (sync.go:25-82).  The same wrapper with several goroutines and the
mutex: `Expand` is the first critical section, which calls the wrapped node and
reads the statuses; `Enter` and `Leave` bound the second, which calls the tick.
`Drop` is a node that is expanded and not ticked, as `Walk` and the printer do.

**Fork** (fork.go:27-77).  One goroutine calls the tick (the variables of the
closure are not protected, so anything else is a data race of the caller).
`Begin` starts a goroutine for each child of a new cycle or for each remaining
one; `TickReturns` is the send to the buffered channel; `Receive` one round of
the collecting loop; `End` the return.

**ForkContract** is what the comment of Fork says (fork.go:23-26), with sets of
children only: a tick asks any children (`Start`) or those that answered running
(`Continue`), each answers once, in any order (`Answer`), and when all have the
tick returns what the cycle has come to (`Return`).  A child that has sent its
result has, for the contract, yet to answer until the result is received, so
`asked` is mapped to `ticking` and the channel together; `failed` and `erred`
come from `final`, and `status`, `err`, `left` and the order in `outputs` and
`remaining` have no counterpart: that they do what the sets do is what is shown.

**AnyFork** (any.go:23-70 over fork.go).  Each step is one of Fork together with
what Any adds to it: the wrapper of a child sets `success` before its goroutine
sends (`AnyChild`), and the code after the wrapped tick looks at it (`AnyEnd`).
Fork keeps the wrappers of the tick of Any that began its cycle; they all set
the one flag, so wrappers need no identity.

**Async** (async.go:20-56).  A call of the tick is one step, as it never blocks.
`TickReturns` and `Send` are the two steps of the goroutine, the second using
the variable `done` as it then is: were it nil or its buffer full, the goroutine
would be stuck.  `"unset"` is what the deferred function sends when the tick
ends its goroutine without returning.  Numbers of executions are used in turn,
so that a run of any length has finitely many states.

**AsyncContract** is what the caller of an Async tick sees of that: an execution
is started, called again any number of times while it goes on, and its own
result is returned once.  `Phase` and `Answer` in Async map channels, goroutines
and their variables to it; what a goroutine does is seen twice, when its tick
returns and when the result can be had.

**Context** (context.go:29-101) extends Async: the tree's goroutine ticks `Init`,
`Cancel`, `Err` and `Done` of a Context `c` and `Async(c.Tick(fn))`.  `CallFn` is
the moment the goroutine of an execution reads `c.ctx`, which may be after
another `Init`; `FnReturns` is Async's `TickReturns`.  `Init` and the goroutine
touch `c.ctx` without synchronisation; the model lets them meet in either
order, the reading of a pointer being taken as one step.  A `context.Context`
is external: over once cancelled, or by itself (`Expire`: parent or deadline).
`DoneTick` blocks the tree until the context is over.

**Background** (background.go:27-51) is the loop, one iteration at a time:
`TickRunning`, `TickEnds` (the removal by `copy` and the cut, and the return), and
`TickNew` after the last.  `alive`, `older`, `ticked` and `missed` are histories.
**RateLimit** (ratelimit.go:21-32) compares with a clock that may stand still or
jump.  **Jobs** composes them, `Sequence(RateLimit(d), Background(tick))`: the
caller that keeps the list short.  The loop of Sequence is a step together with
what it comes to.

**Walk** (metadata.go:122-229).  A tree is a record in the constant set `Trees`:
any graph of nodes in which a child has a larger number (`IsTree`), so shared
nodes occur and cycles do not; nil children; names and structures attached to
any node, any number of them.  `walk` calls itself from within the loop over
the children of a node, so `loops` is its call stack: what each loop has yet to
yield.  `Visit` is a call of `fn` that goes on, `WalkReturns` the end of a loop.
`Stop` is a call of `fn` that returns `false`, and each `HandUp` takes that
through one loop, which is left with whatever it had yet to yield.  `enough` is
a history.  The iterator of a structure is taken to keep to the protocol of Go's
range functions: it yields its list in order and returns when `yield` returns
`false`, as Go asks of every iterator.  `PreOrder`, the conceptual tree below each node, and `Draw` are recursive functions, which, in
contrast to recursive operators, can be reasoned about.

**Introspection** (printer.go) adds the printer to that: `Fprint` draws the tree
in one step, `Draw` being the recursion of `treePrinterNode.print` with its
prefixes (`Margin`); a column of four characters is one value, and which text
stands in a line is left out.  `ReadBack` and `ConnectorsMeet` say what a reader
sees without knowing of the recursion: positions, indentations and connectors.

**Value** (value.go:33-110, 181-224).  A goroutine either queries (`Query`,
`Lock`, `Prep`, the expansion, `Expanded`, `Receive`, `Return`) or just expands
a node (`Expand`, `ExpandReturns`); in either case the expansion calls
`UseValueProvider` (`CheckActive`, `Read`, `Decline` or `Provide`, `Send`), for
the outermost provider first.  A critical section of `valueDataMutex` is one
step.  `inQuery` is the call stack: the goroutines with `valueSync` in it,
which is all that the program counter kept in `valueDataCaller` can tell.
Providers answer or decline as they like.  `Panic` unwinds a query: the deferred
calls run, the package variables keep the key and the channel.  Channels have
names that are used again when nobody has them any more.  `Nest` is a node
that queries another one while it is expanded for a query: it waits for the
mutex that its own goroutine holds.

## 3. Runs

`tlc -config <cfg> <module>`.  Every passing run checks deadlock too, but for
two: in ValueRun a nested query really blocks everyone, which is what
`NestedQueryBlocks` says, and IntrospectionRun ends when Walk has returned and
the tree is drawn.

| Run (cfg, module) | What it asks | Instance |
|---|---|---|
| ManagerRun, MCManager | safety of the manager, its inductive invariant, that it implements TickerContract, and that errors and Stop end it | 2 callers, 1 stopper, 1 ticker |
| ManagerDoneNeedsStop, MCManager | violation, section 4 | the same |
| TickerRun, MCTicker | safety, implementation of TickerContract, and that it ends | 2 stoppers, both constructors |
| ExecutionSafety, MCExecution | results, memory and release of every composite under every wrapper | up to 4 children in order, up to 3 in an order drawn for every tick |
| ExecutionAny, MCExecution | violation, section 4 | 2 children |
| SyncRun, MCSync | the bound on running nodes with goroutines ticking at once; ticks return | 2 goroutines, 3 nodes |
| SyncConcurrent, MCSync | violation, section 4 | 2 goroutines, 2 nodes |
| ForkRun, MCFork | cycles of Fork, and of Any over it; that Fork implements ForkContract | up to 4 children |
| ContextRun, MCContext | executions of Async below a Context; that they implement AsyncContract | 3 executions and 3 contexts told apart; with and without timeout |
| ValueRun, MCValue | queries and expansions at once, with panics and nested queries | 2 goroutines, 2 keys, 2 providers |
| JobsRun, MCJobs | the list of Background, below RateLimit | 5 names of nodes, so up to 4 in the list; durations 0, 1, 2; clock up to 7 |
| IntrospectionRun, MCIntrospection | Walk and the printer, over all trees (`SmallTrees`); `fn` may stop the walk anywhere | 3 nodes with values attached, the root's twice; 4 without |

Why the instances are large enough.

* *Manager*: the interesting cases need an `Add` that races a `Stop` or an
  error, and an `Add` or `handle` that keeps the worker alive meanwhile.  Two
  callers give each of these, in both roles, and calls repeat for ever, so the
  second worker and everything after the end occur.  One stopper is enough for
  user calls of `Stop` against those of `handle`, and it may call again; that
  two goroutines are in `Stop` occurs with the handles.  Both callers may add
  the one ticker, which gives two handles at once; the safety theorems hold for
  any number of each.
* *Ticker*: two stoppers race each other and `run`.
* *Execution*: `Switch` needs four children for two conditions and statements,
  or three for a condition, a statement and a default; the others' loops treat
  all children alike, and three have a first, a middle and a last.  Shuffling
  three gives all six orders.  Ticks go on for ever; state that survives is
  finite.
* *Sync*: fewer goroutines than nodes, or the bound would be vacuous.
* *Fork*: with three children one can be running while another has failed and
  a third given an error, in each order of arrival, and a fourth shows that
  none depends on the others; cycles of any number of children, none included,
  follow each other.
* *Context*: the current context, one that an execution still has, and a new
  one; of executions at most one is open, what could be mixed up with it is the
  one before, and the third number keeps those two apart from the next.
* *Value*: two goroutines give a query against an expansion and a query against
  a query; two providers an outer and an inner one; two keys what is left over
  from a query for another one.  Queries go on for ever.  Three channels are
  enough for one to be free, or `QueryReturns` would fail.
* *Jobs*: a list of four has nodes before and after a middle one that is
  removed; the clock reaches three successes at each duration, and for the
  proofs neither has a bound.
* *Introspection*: three nodes give a structure that hides, reorders, repeats or
  restores children (the lists of structures, and of the root's own children,
  are also there in the reverse order and with one child twice), a walk that is
  stopped within one, two or three loops, and four a child with a sibling below it and one
  above it, shared nodes and each kind of line.  The theorems are about all
  trees.

Type correctness is the first conjunct of every `IInv`, and of `ForkInv`, `BoundInv`
and `JobsInv`, which the runs or the proofs check.  The runs of Execution and
Fork check the properties that follow; for the inductive invariants themselves,
add `INVARIANT IInv` to ExecutionSafety.cfg, `ForkInv` and `AnyInv` to
ForkRun.cfg, or `InspectInv` to IntrospectionRun.cfg.

*Bounds.*  `MaxChildren` and `MaxShuffled` (children of a composite or of a
fork), `MaxProviders` (providers of an expansion), `MaxAttached` and `MaxPlain`
(nodes of a tree), `MaxNow` (the clock), and the numbers of names `Names`,
`Contexts`, `Channels` and `Executions`, which are used again.  `missed` is not
capped: `NoStarvation` is what bounds it.  `errs` of the manager is not capped
either and stays short because a ticker only finishes once and a stopped
manager accepts nothing.

*Fairness.*  Every started goroutine goes on (weak fairness for each step of
each), and these, which the code justifies individually:

* Manager: a ticker that was told to stop finishes, as the interface asks.
  `worker.Do` waits for a lock; Go's mutex hands over to a waiter that has
  waited for long, so `StopStart` is strongly fair.  Nobody needs to call `Add`
  or `Stop`, and a ticker nobody stops may run for ever.
* Ticker: ticks return.  `select` chooses uniformly among what is ready, so the
  context cannot be passed over for ever even if a tick is due every time:
  strong fairness for `SelectDone`.  `SelectStop` needs none, as no tick is
  due after `Stop`.
* Sync: ticks return, so a tick that blocks for ever, and the group with it, is
  assumed away; the mutex again gives strong fairness.
* Fork: the ticks of the children return.
* Value: expansions end; a mutex, so strong fairness for `Lock`.
* Context: the goroutine of an execution goes on (`CallFn`, `SendResult`); its
  function returns if it needs no context or its context is over
  (`FnMustReturn`), as functions that are given a context do; a context with a
  timeout is over some day (`Expire`); `Done` returns when its channel is closed.
  Nobody has to tick `Cancel`, `Init` or the asynchronous tick.
* Jobs, Introspection: none, their properties are safety.

*Environment of Execution.*  Any child may be nil or come without a tick at
any time; its own tick may answer anything, an error with any status, as the
type `Tick` allows and the tests use (`Running` in memorize_test.go:71-76,
`Success` in sync_test.go:42).  Only Sync keeps the status that comes with an
error.  Sync with a shuffled order has no executions, so the properties
about executions are not asked of it, nor of an execution of Sync that begins
with a child left marked as running (`PerExecution`).

## 4. Where code and documentation disagree

* **A manager whose tickers are all done does not close Done**
  (`DoneWhenAllFinished`; manager.go:62-63 against :131).  `run` looks at `stop`
  when the last release function is called, and goes away if it is open.
* **Sync lets two nodes run** when goroutines tick them at once
  (`RealTickAllowed`; sync.go:21-22 against :68).  What does hold is
  `RunningBounded`.
* **Any forgets to reset after an error** (`AnyOnlyIfSucceeded`; any.go:56
  against :21-22): a success from before the error makes the next execution a
  success although no child succeeded in it.
* **Walk visits nil children** (`OnlyValidVisited`; docs/walk.md:23 against
  metadata.go:203): `fn` is called with a nil child as with any other, though the
  document speaks of "each valid child"; if it returns true, expanding the node
  panics (:223).  To a tick a nil child is an error, to the printer nothing.
  This one has no run of its own: with `INVARIANT OnlyValidVisited` added to
  IntrospectionRun.cfg TLC finds a root whose only child, nil, is visited.  What
  does hold, in `WalkVisitsLogicalTree`, is that nothing is visited after it.

Not disagreements but worth knowing:

* `StopLeadsToDone` needs `AddsCease`.  A call of `Add` holds a release function
  while it finds out that it is refused (manager.go:104), and calls that
  overlap without end keep a stopped manager from ever closing `done`.
* A node may be ticked after the context of its ticker was cancelled: `select`
  (ticker.go:131) may take the tick that is due.  After `Stop` it cannot
  (`NoTickAfterStop` is proved), and the end does come (`TickerEnds`).
* An error can leave a node of Sync marked as Running, which disables the others
  from then on, although the execution is over.  Either the node was Running and
  some node, itself or another, comes without a tick (sync.go:64), or its tick
  answers Running and an error (:77-78).  In a Sequence over `Sync(a, b)` where
  `a` succeeds and `b` answers (Running, error), the next tick answers for `a`
  with its old success.  `SyncReleases` says that nothing else does this;
  `OutcomeOfExecution` is about the executions that do not begin so.
* The list of Background is ticked from the oldest, and a tick ends with the
  first node that is not running.  How often a newer node can be left out in a
  row is bounded by the number of nodes before it, not by one.
* `Context.Tick` and `Context.Init` touch `c.ctx` from two goroutines without
  synchronisation when the tick is asynchronous (context.go:62 and :74).
* `Node.Value` inside an expansion made for a `Node.Value` waits for ever and
  blocks every other query, as docs/walk.md:88 says; `NestedBlocks`
  proves it.
* The further lines of a printed value are one column deeper than "align under
  the connector" (printer.go:264-267) needs for nodes other than the root, as
  `prefix` has the column of the connector already; `DrawingTellsTree` holds
  regardless.

## 5. Theorems

All hold for every value of the constants that the named assumptions allow, and
are checked by tlapm with no step left out.

* `ManagerProofs`.  The invariant `IInv` (ManagerInv) is needed because none of
  the safety properties is inductive: that no accepted ticker is unfinished
  when `done` is closed rests on the worker being told to stop only when no
  release function is out (`RefsInv`, `RunInv`), every handle goroutine holding
  one (`RefsInv`), and every registered unfinished ticker having a handle
  goroutine that waits (`FinishInv`).  The same with errors in place of finishes
  is `ReportInv`; that `stop` is closed once is `OnceInv`; that the end is final
  is `DoneInv` and `LateInv`; why the manager stops is `CauseInv`.  One lemma
  per conjunct shows that a step preserves it, one case per action:
  `TypeStep` ... `ReportStep`, put together in `NextIInv`.  From it:
  `TypeCorrect`, `Invariance`, `Quiescence`, `ErrorsComplete`, `LateAdds`,
  `RefusalCause`, `NeverPanics`; and `Refinement`, that every step of the
  manager is one of TickerContract or a stutter.
  Assumption: no goroutine is both a caller and a stopper.
* `TickerProofs`.  `IInv` (TickerInv) orders the effects of `Stop` (`OnceInv`),
  says that no tick is due once the timer is stopped (`TimerInv`), what `run`
  has done by each label (`RunInv`) and what the loop has found out by then
  (`CauseInv`).  From it: `TypeCorrect`, `Invariance`, `Freed`, `TrueCause`, the action
  properties `StoppedForGood` and `FailedForGood`, and `Refinement`.
* `ContextProofs`, first about Async.  `IInv` says that an open execution has
  either its goroutine or its result in the channel and that all other channels
  are empty.  From it `Invariance`, `Exclusive`, and `Implements`: every step of
  Async is one of AsyncContract, with one step of the proof per action.  Then
  every step of a tree with a Context is one of Async or leaves its variables
  alone (`StepImplements`), so that `Refinement` hands down what is proved of
  Async: `ContextImplements`, `ExclusiveBelowContext`.  `LiveStep` shows the first
  half of `OnlyCurrentLive` to be inductive, and `OnlyCurrent` is the theorem.
  Assumptions: at least two executions are told apart; the nil context is none
  of the others.
* `ExecutionProofs`.  The heart is what the loop knows at iteration `pos`: the
  answers so far are such that each iteration let it pass on (`Passes`, `Path`),
  and `ok` sums them up (`Covers`).  `Advance` shows that an iteration that does not
  return preserves that for all four composites, `OutcomeAt` and `OutcomeAfter`
  that where the loop ends the reference definition, which has no loop, comes to
  the same, whatever the children after that position would have answered, and
  `TicksOnPath` that the children ticked on the way (`LoopInv`) are those the
  reference definition names (`CoverTicks`).  So no induction over the children is needed: the steps of the loop are steps of
  the specification.  `IInv` (ExecutionInv) claims `Covers` of three things at
  once: of the answers of this tick (`LoopInv`, for `OutcomeOfTick`), of what the
  wrapper has in memory, and of the last results of the children in this
  execution (for `OutcomeOfExecution`).  For Memorize the last two are the same
  (`MemorizeInv`); for Sync at most one child is running (`SyncInv`), the loop must
  come back to it unless an error has left it marked (`lost`, `ResumeInv`), and
  what is in memory is of this execution and of no child behind it (`FinalInv`).  `AnyInv` says what the
  flag knows.  From these, proved by one lemma for each action under each
  wrapper: `Invariance`, `TickOutcome`, `ExecutionOutcome`, `AnySuccess`, `Released`,
  and the action properties `FinalStatusKept` and `RunningResumed`.  Assumptions:
  the bounds on children are natural numbers, so any number will do.
* `ForkProofs`.  `ForkInv` says where each child of the cycle is: ticked by its
  goroutine, in the channel, in `remaining`, or finished, in exactly one of these,
  and that `left` counts the first two (`WhereInv`); and that `status` and `err` are
  about those that have finished (`CycleInv`).  `TickingFinite` turns the count
  into what the collecting loop relies on: when it has received `count` results
  no goroutine is left.  From it `Implements`, that every step of Fork is one of
  ForkContract or, when a goroutine sends, a stutter (one lemma for each:
  `BeginContract`, `ReturnsContract`, `ReceiveContract`, `EndContract`); and
  `Outcome`, what a cycle returned put in terms of all its children at once,
  `Errored`, `LeftBehind` and `AnyImplements`, stated of `AnySpec`, as `Refinement`
  shows that Any only does to Fork what anyone may.
  `AnyInv` says where the flag got each success from, and gives the action
  property `Overridden`.  Assumption: the bound on children is a natural number.
* `WrapperProofs`, Sync.  That at most as many nodes run as there are goroutines is not
  inductive: a tick that was allowed before another node started running still
  counts.  `BoundInv` bounds the running nodes and those that ticks already
  allowed may set running, together.  `SyncInvariance`, `RunningTheorem`.
  Assumption: finitely many goroutines and nodes.
* `WrapperProofs`, Background and RateLimit.  That no node starves rests on the list being in the order of
  age and on the nodes before `pos` having been ticked (`AgeInv`): a node that is
  left out has the one that ended before it, and so one less from then on,
  while `missed` grows by one.  `WithoutShifts` says what the copy and the cut
  leave, `FewBefore` counts.  `ClockInv` and `Growth` say that every node in the
  list was made at a success of its own, a duration after the one before.
  `JobsInvariant` puts them together; from it `ListTheorem`, `OldestTheorem`,
  `StarvationTheorem`, `GrowthTheorem`.  Assumptions: finitely many names of nodes,
  durations and the bound of the clock are natural numbers.
* `MetadataProofs`, Value.  `IInv` (in Value) says that one goroutine at most is
  inside a query (`OwnerInv`), that the package variables are then its own, and
  that what its expansion provided first is in its channel or about to be sent
  there (`AnswerInv`).  `Invariance`, `Answers`, `ActiveOnly`, and `NestedBlocks`:
  after a nested query nobody gets the mutex any more.  Assumption: None is none
  of the other values.
* `MetadataProofs`, Walk.  `WalkInv`: as long as `fn` has not returned false, what
  was visited, followed by the trees of the nodes that all loops have yet to
  yield (`Ahead`), is the order below the root.  `StackStep` and `StackPush` say
  what the loops together have yet to yield when one ends or begins, `Visiting`
  and `Yielding` are a call of `fn` that goes on and one that does not, and
  `HandUp` visits nothing.  `WalkInvariant`, and from it `WalkCorrect`.
  Assumption: `IsTree`, that the children of a node have larger numbers, which
  stands for a graph without cycles, as neither Walk nor the printer would end
  in one.
* `IntrospectionProofs`.  `InspectIsWalk` hands down what is proved of Walk
  (`InspectWalkCorrect`), and what is printed is the drawing of the tree
  (`InspectInvariant`).  The rest is about the two recursions.
  `WalkMatchesDrawing`: leaving out nil nodes of the order that Walk visits, and
  the nodes shown by the drawing, obey the same equation (`PhysicalAt`,
  `DrawShowsPhysical`).  `DrawingCorrect`, connectors: `Fits` says where a node can
  be drawn so that its lines meet each other and the line below them, wherever
  that begins; the children of a node fit if it does (`ChildFits`), so all do
  (`DrawChain`).  `DrawingCorrect`, reading back: the lines below a node are a
  `Forest`, in which every line is deeper than the node's, has the line of its
  parent in it unless it is at the top, and is read to have the children that
  are drawn; forests can be put one below the other (`ForestConcat`), and a line
  on top of one makes one that is less deep (`ForestRoot`).

*How the proofs about trees go.*  Most of the other proofs need no induction but
that of the specification's steps.  Those about Walk and the printer need
induction over numbers, sequences and trees.  The induction theorems of the
library take an operator as a parameter, which the provers cannot instantiate,
so induction is stated of sets here: counterexamples are a set of numbers,
which has a least element (`Least`, from `WFMin` and `NatLessThanWellFounded`) and
so is empty if each has a lesser one (`Induction`).  `SeqInduction` and
`DownInduction`, from the largest node down, follow.  A recursive function is the
CHOOSE of what satisfies its equation; that there is one is proved first
(`FlattenExists`, `PreOrderDef`, `DrawDef`).  Almost everything a recursion computes
here is `Each(s, f)`, what `f` gives for the members of `s` one after the other,
and nearly all proofs rest on its equations: for `Append`, for concatenations
(`EachConcat`, `EachFlatten`) and for two such functions in turn (`EachEach`).

Model-checked only: all liveness (`ErrorStopsManager`, `StopReturns`,
`StopLeadsToDone`, `TickerEnds`, `TicksReturn`, `TickEnds`, `CancelReachesFn`,
`ExecutionsEnd`, `QueryReturns`), which is out of the prover's reach.

## 6. Not modelled

* *Frame* (frame.go, and `Tick.Frame`, `Node.Frame`): looks up function, file and
  line in the symbol tables of the program; no state, no protocol.
* *Node, Tick and Status*: `Status.String` and the closures of factory.go, which
  have no state that changes.  `Node.Tick` itself is part of every tick of a
  child.
* *Value*: how a call stack is searched (value.go:202-223) is the set `inQuery`;
  the panics of `WithValue` for nil and incomparable keys are left out.
* *Printer*: which strings stand in a line and how its columns are padded, and
  the options of `TreePrinter`.
* *Ticker*: the panics of the constructors for nil arguments.
* *Context*: the values a context carries.
* *Fork*: the arrays behind slices; a slice is its members.
* *Execution*: a status other than the three that Sync keeps is one value, `invalid`.
* *Sync*: the status that a disabled tick reports when several goroutines tick
  the group; Sync below Fork.
* Data races of callers: ticking the tick of a Fork, Async, Background or
  Memorize from two goroutines at once is the caller's fault.
* Panics of user code, apart from those in Value and from a goroutine that ends
  in Async.

## 7. Plan

Done: every component with state or concurrency is modelled and checked, and
every safety invariant and action property of the passing runs is proved.

Next: an abstract specification of the queries of Value (asked, provided,
answered), and that the protocol over the package variables implements it; and
Sync below Fork, where the goroutines that tick a group are those of Fork.
