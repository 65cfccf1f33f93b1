# nhope: a verification project in TLA+

nhope is a C++ library for asynchronous programs: executors, contexts that own
asynchronous work (`AOContext`), futures, pausable tasks and a scheduler for
them, channels of values, services such as timers and polled values, and I/O on
top.  This directory holds TLA+ models of it, the TLC configurations that check
them, and TLAPS proofs of the properties that matter most.  Every definition is
translated from the source; `PROJECT.json` says from which lines ("map"), lists
the components, the hazards of the code with the properties that guard against
them, the runs with a mutant for each property, the theorems, and the
disagreements found.

Paths below are relative to `src/`; `impl.h` is
`include/nhope/async/detail/ao-context-impl.h`, `state.h` is
`include/nhope/async/detail/ao-context-state.h`.

## 1. The system

| Component | State | Operations | Hard behaviour | Correct when |
|---|---|---|---|---|
| `StrandExecutor` (`lib/async/strand-executor.cpp`) | `m_taskQueue`, `m_idle`, one job in the origin executor | `exec`, the job, destructor | works run with the mutex released; submissions come from works, from other threads, and during destruction | one work at a time, in order, none forgotten, at most one job |
| `AOContext` (`ao-context*.h`, `impl.h`, `state.h`) | one atomic word (flags, 32-bit references, 24-bit blocks), list of close handlers under a spin lock, executor holder, parent | `exec`, `addCloseHandler`, `removeCloseHandler`, `startCancellableTask`, `makeChild`, `close`, destructor | all of these race with `close`; handlers and works call back into the context; a child and its parent close each other | from `Closing` on only the closing thread is inside; every handler is called once or removed; nothing is used after it was freed; every call returns |
| `Future`, `Promise` (`future.h`, `detail/future-state.h`, `event.h`) | `m_flags`, result, callback, cancel flag, reference count | `setValue`, `setException`, `wait`, `waitFor`, `get`, `then`, `fail`, `cancel`, `unwrap` | promise and future set their flag at the same time; the callback belongs to the state, to an executor's closure and to a context's list of handlers at once; chains inside chains | the callback fires exactly once; every state has one resolver; the next future is resolved once, and is resolved; a cancel reaches the root |
| `SharedFlag` (`detail/ts-shared-flag.h`) | a pointer per object, one word of references and bit per flag | `set`, `isSet`, copy, assignment, destructor | several threads make the flag at once | one flag per chain, freed by its last owner |
| `asyncInvoke`, `invoke` (`async-invoke.h`) | none of its own | a ready future with `then` in the context | the only reference to the state is the caller's | the future is resolved although the context closes |
| `ManageableTask` (`lib/async/manageable-task.cpp`) | `m_state`, three lists of promises, a thread asleep on a condition variable | `asyncPause`, `asyncResume`, `asyncStop`, `asyncWaitForStopped`, `checkPoint`, `run` | promises are resolved with the mutex released, so requests overtake each other | a paused function is held; every request is answered; a stop is obeyed |
| `Scheduler` (`lib/async/scheduler.cpp`) | active task, waiting, delayed and finished lists | `push`, `activate`, `deactivate`, `cancel`, `clear`, `wait` | continuations of pause and stop come when the lists have changed | one task active, priorities kept, every wait ends |
| Executors of threads (`thread-executor.cpp`, `thread-pool-executor.cpp`, `io-context-executor.cpp`) | an `asio::io_context` | `exec` | `ImmediatelyIfPossible` runs a work inside `exec` | they are the assumptions of the models above |
| Timers (`timer.cpp`) | an asio timer that is a close handler | `setTimeout`, `setInterval` | expiry races with close; a handler closes its own context | no tick after close, nothing used after it was deleted, the future resolved |
| `all` (`all.h`), `run` (`task.cpp`) | a countdown, a promise, a context of its own | `all(futures)`, `all(tuple)` | several failures, in any order, while futures are still being started | resolved once, with the right outcome |
| `StateObserver` (`state-observer.h`) | a value, a poll under way, contexts that replace each other | `setState`, the poll | late answers of setter and getter | no stale value overwrites a newer one; the polling never stops |
| `DelayedProperty` (`delayed-property.h`) | current and new value, a promise | `setNewValue`, `applyNewValue`, `waitNewValue` | the mutex is released while a value is applied | every assignment is applied or answered otherwise; nobody sleeps beside a value |
| `CallQueue` (`call-queue.h`) | the end of a chain of futures | `push`, destructor | calls fail, and their contexts close | calls do not overlap, each is answered |
| `TSQueue` and locks (`ts-queue.h`) | a bounded queue, a closed flag | `write`, `read`, `close` | full, empty, closed while somebody waits | nothing lost or duplicated, every waiter woken |
| `Chan`, `Consumer`, `Producer` (`include/nhope/seq`) | list of consumers, producer thread | `produce`, `consume`, `close` | consumers are called with the list taken out | each open consumer sees each value, readers are told of the end |
| Containers (`fifo.h`, `priority-queue.h`, `weak_list.h`) | ring buffer, heap-like list | push, pop | wrap-around | they are a bounded queue, a stable priority queue |
| I/O operations (`lib/io/io-device.cpp`, `pushback-reader.cpp`) | an operation over a device, held by the handler it left there | `read`, `readExactly`, `readUntil`, `readAll`, `write`, `writeExactly`, `copy`, `concat`, `unread` | short reads and writes, errors, devices destroyed | each promise is resolved once, no byte lost or doubled |
| I/O devices (`tcp.cpp`, `local-socket.cpp`, `udp.cpp`, `file.cpp`, ...) | asio objects, operations that delete themselves | connect, accept, read, write | the context closes while asio works | no answer finds its operation deleted; whoever waits is answered |
| Utilities (`base64.cpp`, `hex.cpp`, `md5.cpp`, ...) | none | conversions | padding, bad input | decode undoes encode |
| Platform code, benchmarks, build (`specific`, `benchs`, `cmake`) | none of the library | | | |

How they interact.  Everything asynchronous runs in an `AOContext`: `exec` puts a
closure into its executor (mostly a strand over a pool of threads), and what must
not outlive the context registers a close handler with it.  A future with `then` is
such a handler, and so are timers, sockets and the children of a context.  A
`ManageableTask` and a `FuncProducer` have threads of their own and answer through
promises; the `Scheduler` is a client of tasks and of a context.  I/O operations are
chains of callbacks through the contexts of devices.  The models follow this layering:
each layer is modelled over what the layer below promises (`SequenceExecutor`,
`CloseGate`, `WorkContext`) and not over its details.

## 2. The modules

| Module | Models | Checked by | Proofs |
|---|---|---|---|
| `SequenceExecutor` | what a strand promises | | |
| `StrandExecutor` | `strand-executor.cpp` | `MCStrandExecutor` | `Promises_proofs` |
| `CloseGate` | what the word of a context promises | | |
| `CloseProtocol` | `state.h`, and how `impl.h` uses it to close | `MCCloseProtocol` | `CloseProtocol_proofs` |
| `AOContext` | `impl.h`: the tree, references, handlers, works, close, destruction | `MCAOContext` | `AOContext_proofs`, `ContextLives_proofs` |
| `FutureState` | `setFlag`, `wait`, `waitFor`, `get` | `MCFutures` | `FutureState_proofs` |
| `FutureChain` | `then`, `fail`, `asyncInvoke` with a context | `MCFutures` | `FutureState_proofs` |
| `Promises` | `Promise` objects, chains without a context, `unwrap`, `cancel` | `MCPromises` | `Promises_proofs` |
| `SharedFlag` | `ts-shared-flag.h` | `MCPromises` | `Promises_proofs` |
| `ManageableTask` | `manageable-task.cpp` | `MCManageableTask` | `ManageableTask_proofs` |
| `Scheduler` | `scheduler.cpp` | `MCScheduler` | `ManageableTask_proofs` |
| `TSQueue`, `Channel` | `ts-queue.h`; producers, `ConsumerList`, `Chan`, `takeOne`, `Notifier` | `MCDataFlow` | `Channel_proofs` |
| `ByteStreams` | `io-device.cpp` and the readers and writers it works with | `MCDataFlow` | |
| `BoundedQueue`, `Fifo` | what `Fifo` promises; `fifo.h` | `MCDataFlow`, `Fifo` | |
| `WorkContext` | contexts and their executor as services see them | | |
| `Timers`, `AllFutures`, `StateObserver`, `CallQueue`, `Connections` | `timer.cpp`; `all.h`, `task.cpp`; `state-observer.h`; `call-queue.h`; `tcp.cpp`, `local-socket.cpp` | `MCServices` | `Services_proofs` |
| `DelayedProperty` | `delayed-property.h` | `MCServices` | `Services_proofs` |
| `Services` | all of them on one executor | `MCServices` | `Services_proofs` |

`CloseProtocol` and `AOContext` both implement `CloseGate`; `FutureChain` is
built on `CloseGate`'s actions in place of a whole context.  `StrandExecutor`
implements `SequenceExecutor`, `Fifo` implements `BoundedQueue`; the `Worker` of
`AOContext` and of `FutureChain` runs closures one by one and in order, as
`SequenceExecutor` allows.  `WorkContext` joins both promises for the services: works
in order, none of a closed context, no close from outside during a work.

An `MC` module gives the constants their values and, where it holds several
components, picks one of them in `Init` for the whole behaviour: components of
one MC module do not interact, they share a run as the programs of `context` do.

### StrandExecutor

A section under `m_mutex` is an action: `Exec`, `Clear` (the destructor's
`clear`), `TakeWork`/`FindNothing` (the job up to the unlock),
`ScheduleNextWork` (after it).  `FinishWork` is the return of the work, between
them.  `StartJob` is the origin executor, which any of its threads may be.
`status` is history: it is read by guards only to submit a work once.

### CloseProtocol

`flags` and `blocks` are the two parts of the word that closing uses (the counter
is modulo `BlockLimit` = 2^24).  `blockClose` is a `fetch_add` whose old value
decides, so a refused call raises the counter and takes it back (`UndoBlock`) two
steps later.  `close` is `StartClose`, `WaitForClosing`, `SetClosingFlag`,
`SetClosedFlag`; who comes second is in `WaitForClosed`.  `Items` are the calls
with an item in `WorkingInThisThreadSet`, which alone are allowed for when `close`
is called under them.

### AOContext

A thread is a stack of frames, innermost first, because `close` calls handlers, a
handler closes a child, and a work or a handler is client code that calls back.
Each access to the atomic word is a step.  A section under the spin lock of the
list is one step: it touches nothing else and never waits.  `hasPtr`,
`destroyed` and `done` are `m_destroyed` (the pointer, and the local it points to)
and `m_done` of a handler node.  The closures of the executor are in `queue`; each
holds a reference.  A strand made by the root (`OwnsExecutor`) drops its queue
when the root lets go of it; an executor of the client's may run a work inside
`exec` (`PostInline`).

What clients do is data: a program is a set of calls `[op, ctx, arg, by]`, `by`
being a thread, a work or a handler.  Any of them may happen whenever `by` is
running and the rules of the interface permit it (`Permitted`: a handler is added
once and removed only if it was added, a context is destroyed once, a call goes
through a live reference).  `fate`, `gone`, `closer`, `owned` and `issued` are
the history of these rules.

### FutureState

`setFlag` is `LoadFlags`, `CompareExchange`, `StoreBoth`, `FutureReady`.  The
last store is relaxed, the exchange is not.  `synced` says whether the future's
thread has learnt of the result in a way that lets it see the result's field; with
`WeakMemory` the relaxed store does not teach it, and what a read then returns
is one of both values.

### FutureChain

One state S with its callback, the next state N, and a context that may close.
`holders` are the references to S; with the last of them S and its callback go
(`Destroy`), the callback's destructor taking itself off the context's list
(`removeCloseHandler`, which waits while the handler is being called).  `handler`
is the callback's place in that list.  `Owners` says what becomes of the promise:
it is kept, it is dropped, or there is none (`makeReadyFuture`, hence
`asyncInvoke`).  `setFlag` is one step here, which `FutureState` justifies.  A
worker that meets `ImmediatelyIfPossible` runs the closure in the posting thread;
the model always runs it in the worker, which differs only in the thread's name.

### ManageableTask

Each request and each section of the thread's function under the mutex is an
action.  `promise[f]` tells which list the promise of a request is in, or that it
was moved out of its list by the task's thread ("moved", also in `batch`) or by a
request ("outdated") and waits to be resolved with the mutex released.  The
function is a loop that comes to a check point or returns or throws at will;
`m_beforePause` may refuse a pause (`GoOn` in state `Pausing`).

### Scheduler

`pc` is where the scheduler's thread is in the closure it runs, `current` the call
it will answer.  The thread waits where the code calls `pause()`, `resume()`,
`stop()` or joins a task (`preempt`, `delay`, `resuming`, `stopping`, `join`), and the
tasks' threads run on meanwhile.  A `ManageableTask` is what this one client sees of
it: a request and its answer are steps of their own, its stop promises are
`waiters`, resolved one by one in order.  `promises` are the four lists of every
`Task`, `chain` the references that the continuations of `clear` keep.  What the
clients do is data again: a plan is a set of calls `[by, nr, op, arg]`, those of one
thread in order.  `Endless` are tasks that return only when told to stop; all others
may return at any time.  `MaxTasks` bounds how many are pushed.  The destructor is one step after its `clear` has returned.

### Promises

The states of futures are numbered as `makeRefPtr` makes them; `Slots` are the
variables of type `Promise`.  A callback runs where the result is set, as it does
without a context.  `callback[s].next` is the state that the callback of `s`
resolves, `nested` are the states of a `Future<Future<T>>`, `inside` the future that
is their value.  `FireUnwrap` is `UnwrapperFutureCallback`: it hangs itself on the
future inside and gives it the flag of the last state.  `token` names the flag by the
state that first had it.

### SharedFlag

Every access to `m_ptr` and to the flag's word is a step.  `call` is the operation a
thread is in (`set`, `isSet`, the copy constructor, `operator=`, the destructor) and
where in it.  `heap` are the flags that are allocated; what `new` gives may be an
address that was freed before.  `group` and `raised` are history: which objects were
copied from each other, and whose flag was set.  `Exclusive` states what the states of
futures guarantee about who uses one object at the same time.

### TSQueue and Channel

A section under `m_mutex` of `TSQueue` is one step (`Write`, `Read`, `Close`, `Block`);
`waiting` are the threads inside a wait on a condition variable, and `NotifyOne` lets
go of any one of them.  `accepted`, `taken` and `sawEnd` are history.  In `Channel` a
`FuncProducer` is the thread it starts.  `list` is `m_list` of its `ConsumerList`,
`calling` the list that `consume` has taken out, and `pos` the consumer it is at, so
that `AddConsumer` and `Stop` may come between two calls.  A consumer that is dropped
acts as its destructor does: `Destroy` cancels takers and counts the inputs of the
`Chan`, the last of which closes the queue.  `Clients` use a `TSQueue` on their own,
with time-outs.

### ByteStreams

One operation at a time over one reader or writer.  `op` is what `ReadOp`, `WriteOp`
or `CopyOp` know; what asio has been asked is `request`, what the executor has is
`works`.  The handler that an operation leaves with a device is what keeps the
operation alive: `Settle` cancels the promise when no closure and no request is left,
which is what the destructors of the operations do.  `leaves` are the readers below a
wrapper (`PushbackReader`, `ConcatReader`), each with the bytes it still has.  `stream`
is history: the bytes that were there to be read when the operation began.

### Fifo

`Push`, `PushNothing`, `Pop` and `Clear` over the ring of `NextPowerOf2` places, with
the two `memcpy` of a span that wraps.  `Fits` keeps a push that wraps to what there is
room for: without it the run `fifo_partial_push` finds the ring broken.

### WorkContext and the services on it

`open` are the contexts that are open, `works` the closures in their executor, in
order, each with its context; to close a context removes its closures (`Without`).

- `Timers`.  `timer` is the life of a timer object up to its `delete this`; `aborted`
  are those that asio has still to report although they are deleted.  `Expire` is
  asio's callback, which goes through `exec`; `Wake...` is the closure with the raw
  pointer; `Closed` is the close of any set of contexts with `aoContextClose` of their
  timers.  `HandlerReturns` is separate from `WakeInterval`, as the handler may close.
- `AllFutures`.  `starting` is the loop that starts the items, in steps, so that items
  end and contexts close in the middle; `hooked` are the callbacks that hold the
  operation, and with the last of them the promise goes (`Release`).
- `StateObserver`.  The contexts 1, 2, ... are the `m_updateAOCtx` that `setState`
  replaces.  `asked` are setters and getters that have not answered; they keep the
  context of their time.
- `DelayedProperty`.  Calls of `setNewValue` are `Assignments`.  `TakeNewValue` and
  `HandlerEnds` are the two sides of the unlocked handler.
- `CallQueue`.  The three callbacks of a call are the closures `start` and `finish`
  in the call's context; `link` is the future of the chain behind it.
- `Connections`.  `networking` is what asio still has to answer, with the operation it
  would call; `acceptor` is the server's.

## 3. Runs

Passing runs, with their distinct states:

| Run | Instance | Shows |
|---|---|---|
| `strand` (1,788) | 4 works, 2 origin threads, destruction at any time | `m_idle` is false exactly while one job exists (`IdleIsToken`), the refinement of `SequenceExecutor`, every accepted work is run or discarded |
| `close_protocol` (13,691) | 5 calls by 3 threads, each thread may close | the counter is exact whatever was refused, refinement of `CloseGate` (exclusion after `Closing`), `close` returns |
| `context` (81,745) | programs `alone`, `inline`, `tree` | see below |
| `futures` (5,269) | one promise with three waits and a get, stores in order; or a chain of `then` or `fail` with three kinds of owner, cancel and close | the callback fires once, no lost wake-up, `get` returns the result, `wait` and `get` return; the next future is resolved at most once, the callback is never used after it was deleted nor by two threads, it is resolved while the context is open, and always if the promise is kept |
| `manageable_task` (4,338) | 4 requests and a stop | a paused function is held, requests are answered, a stop is obeyed |
| `scheduler` (57,330) | plans `priorities`, `delays`, `clearing`, `destruction`: 3 tasks, 3 clients | only the active task runs; the waiting ones are sorted and none of them outranks it; none is stranded; the destructor leaves nothing; an answer is true when it is given; every call returns |
| `data_flow` (686,377) | 2 producers, 2 readers, 3 clients of a queue of capacity 2; or an operation on 6 kinds of readers and writers; or a ring for 3 values | values come once and in order, the end of a channel is final, nobody sleeps beside a value or a free place, each consumer sees every value, readers are told of the end; operations answer exactly the bytes they promise, and answer; the ring is a bounded queue |
| `services` (81,091) | one of `Timers`, `AllFutures`, `StateObserver`, `DelayedProperty`, `CallQueue`, `Connections` | nothing is used after it was deleted, no late answer counts, no assignment and no call is forgotten or made too early, `all` is answered once and truly, whoever waits is answered |
| `promises` (4.28 million) | 5 states and 2 `Promise` variables; or 3 objects and 2 threads around flags | every state has exactly one resolver, a cancel reaches the root of the chain; a flag lives exactly as long as its owners |

The runs `context_parent_work`, `future_chain_invoke` and `fifo_partial_push` each
show a disagreement of section 6.

Some properties join several statements of one kind:

- `CloseIsComplete` is `TypeOK`, `ClosingExcludesOthers`, `NoHandlerForgotten` and
  `ClosedParentHasClosedChildren` of `AOContext`.
- `ListsMatchTasks` of `Scheduler` is `TypeOK`, `OnlyActiveRuns`, `PriorityIsKept`,
  `NothingWaitsInVain`, `NoDanglingTask` and `DestructorFindsNothing`.
- `RequestsAreServed` of `ManageableTask` is `RequestsAreAnswered` and `StopIsObeyed`.
- `CallbackServesOnce` of `FutureChain` says that the result stays as it is once set,
  and that the callback is used by one thread at a time and not after its deletion.
- `ChainResolvesUnlessDropped` is `ResolvesWhileOpen` and `ChainResolvesIfKept`.
- `NoOperationUsedAfterDelete` and `OperationsEnd` of `Services` join what `Timers`,
  `Connections` and `AllFutures` say.

The programs of `context`.  `alone`: one thread destroys the context while
another execs a work, adds a handler and removes it, the handler removes itself
or closes, the work closes, starts a task whose start function may throw, another
work removes it.  `inline`: works, one of them nested, run inside `exec`, a
handler execs, a work closes.  `tree`: parent and child are destroyed by
different threads while a third makes another child and destroys it, and a work
of the first child adds a handler.  Checked on all: `CloseIsComplete`,
`RemovedHandlerIsUnused` (after `removeCloseHandler` the client may free its
handler: `callCloseHandlers` will not write to it, and no other thread is in it),
`NoUseAfterFree` (of contexts and of the executor) and `CallsReturn`.

Deadlock.  `strand`, `close_protocol`, `context`, `futures`, `manageable_task` and
`scheduler` check it: their specifications have a `Quiescent` step for the states in
which the clients are through, so that a stuck thread is an error.  In `data_flow`,
`services` and `promises` the clients may stop at any time and leave, say, a reader
asleep on an empty channel; there the check would say nothing, and
`NoSleeperForgotten`, `ReadersEnd` and the other liveness properties say which waits
must end.

Why the bounds are enough.  *Strand*: with four works the queue has a front, a
middle and a tail while one runs, and two threads are enough for two jobs to
overlap if the token failed.  *Close*: the interesting cases are a call
let in, a call refused, a call nested in another, an item-less call, and two
closers; each is there with another thread beside it.  *Context*: each pair of
operations that shares a node, a reference or the word meets in some program,
and each is also made from inside a work or a handler; two levels of contexts are
enough, since a context only knows its parent and its children.  *FutureState*: two
waits before a get already give every combination of "callback not set, set, set
and fired"; the third is margin.  *FutureChain*: one callback, one closure and one
close; more of either are independent of them, as each chain has its own state.
*ManageableTask*: four requests are a pause, a resume that overtakes it, a second
pause in the unlocked window and a wait for the end.  *Scheduler*: with three tasks
one is active while two wait, or one waits and one is delayed, which is every
relation of a list to its neighbours; each task may finish in each window in which
the scheduler's thread waits.  The plans leave out the sequences of section 6,
numbers 5 to 8, which go wrong.  *Channel*: with two values and capacity 2 the queue
is empty, partly full and full, and two producers or two inputs fill it from both
sides; three clients are a writer and a reader asleep and one that wakes them, or two
of one kind of which a notification wakes the wrong one.  *ByteStreams*: streams have
up to five bytes and the portions of `readAll` and `copy` two, so each operation takes
several portions, the last of them short; the marker overlaps itself with its
neighbours; a `concat` has an empty reader between two others; two calls are what one
leaves for the next.  *Fifo*: a ring of four places for three values wraps in every
call after the first few.  *Services*: two timers of every pair of kinds, three items
of which two fail, two calls of `setState` with a poll under way, three assignments of
which one waits while another is applied, three calls in two contexts, three connects
that are resolved, connecting and answered at the same time.  *Promises*: five states
are a chain behind a future that is inside another one and hung on a third; three
objects and two threads are a copy, an assignment and a destruction around one flag,
which any two of them may be the first to make.  The two slots are interchangeable
(symmetry, no liveness is checked there).

Fairness.  Threads that are inside the library run on (weak fairness of their
steps); origin executors run their jobs and works and handlers return; a promise
is satisfied at last, if only by its destructor; a task's function comes to check
points or returns, and `m_beforePause` does not refuse every time it is asked
(strong fairness of `BeginPause`, which no pause could do without).  asio answers what
it was asked, timers expire, the future of an item of `all`, of a setter, a getter or
a queued call ends.  A consumer that was made is handed over; the threads of producers
and of readers that loop over a channel go on.  `accept` alone is not counted on, as
no client need come: it is answered for certain only once its acceptor is closed.  No
time-out of a wait and, but for `Scheduler`, no call of a client is ever taken for
granted; a plan of `Scheduler` is carried out to its end, as a task that somebody
delayed is waited for in vain unless somebody activates it.

## 4. Proofs

What TLC shows for these instances TLAPS proves for any number of threads, works,
calls, values and requests, in the modules `*_proofs`.

- `CloseProtocol_proofs`.  The invariant is `TypeOK`, `BlocksAreCounted` (the
  counter is the number of calls that hold a block, refused ones included),
  `CloserIsAlone` and `ExcludedFromTheWaitOn`.  The last is why it is inductive:
  exclusion is not decided when `Closing` is set but one step earlier, when
  `waitForClosing` sees the counter; from there on every call of another thread
  that still comes is refused, since `PreparingForClosing` is set.  The step itself is a
  cardinality argument: the counter is at most the number of the closing thread's
  own items, which are among the holders, so there are no others.
  Assumptions: `ThreadsAssumption`, `CallsAssumption`, and `CounterAssumption`,
  which says that fewer than 2^24 calls are made at one time.
- `AOContext_proofs`, for any tree of contexts, any programs and any number of threads.
  That a removed handler is not used says nothing of how it came so; the invariant
  `HandlersInv` follows each handler from its addition to its removal.  It is in one
  list (`HandlersOK`), or one frame *owns* it (`OneOwner`): one that is about to insert
  it, or the loop that has popped it.  What a frame knows of its handler (`FramesOK`,
  `HandlerFrameOK`) is that an inserter finds it fresh, and that a loop may write to it
  unless it was told; a handler that is being called is right above its loop (`Nested`),
  so that of two removals, in the closing thread and in another one, the first tells the
  loop and the second waits for it.  `ClosersKnown`: one thread closes a context.
  A step replaces the innermost frames of one thread (`Moves`); `Keeps` says once for
  all what it must show of the handlers it touches, `QuietKeeps` that a step that
  touches none shows nothing.  `RemovedHandlersAreUnused` follows.
  Assumptions: `TreeAssumption`, and `ProgramsAssumption`: a handler is
  added to, started at and removed from one and the same context, as in all of the
  library, where it removes itself from the context it holds.
- `AOContext_proofs` also has the wait of `close` (`ClosingExcludes`,
  `HandlersAreNotForgotten`).  `CloseInv` adds to `HandlersInv` that the counter of a
  context is the number of the frames that hold a block on it (`BlocksOK`; a frame has
  its *place*, thread and height, and a step changes the set of places by one), that
  whoever is past the wait is alone inside (`Excluded`, from the wait on as in
  `CloseProtocol`: a thread that comes later is refused), and how far the close of each
  context is (`FlagsOK`, `Stages`).  That the counter is at most the thread's own items
  shuts the others out only if those items hold blocks on the context that is closed.
  This is false when a work closes another context than its own (section 6: TLC has the
  counterexample), so the theorems assume `ClosesAlone` of every program: close is
  called from no work (`OutsideWorks`: the thread then has no item), or the program is
  about one context (`OneTree`: the thread's items are an injection into the places of
  the blocks, hence onto them).  `Lower` says that the frames below the call of close
  are works or execs that run one, so that nobody is inside but in a work.
  `MCAOContext` asserts which of its programs are such.
  From the same invariant, `RootIsCloseGate`: the root of the tree implements
  `CloseGate`, so what `CloseProtocol` shows of bare calls holds of works, handlers,
  children and nested calls.  A step that moves frames changes the set of threads inside
  (`TurnInside`) only where the gate lets threads in or out, and each of the four steps
  that write the word is the gate's step of that name (`GateStep`).
  Assumptions: the two above, and for the last theorem `RootAssumption`: the tree has
  one root.
- `ContextLives_proofs`, which extends it (its last sections hold the grammar and the
  kinds of steps), has the lives of contexts: `ContextsLive`, and
  `ChildrenCloseFirst` from it, the promise of the header that a closed parent has closed
  children (`ClosedParentHasClosedChildren`).  A child is closed by its parent's loop, or
  by a thread of its own, which then has to take it out of the parent's list, or to wait
  in `removeCloseHandler` for the loop that has popped it already.  So the invariant
  `LifeInv` follows every child: `ChildrenHeld` says that once added it is in its parent's
  list, or a loop has popped it and not seen the end of its close, or it has left.  It has
  left when it is closed, or past its `removeCloseHandler` (`LatePcs`); from there its
  parent may get ahead of it only because the loop that has popped it waits for it.
  That it is one loop and one call of `makeChild` is `OnePopper` and `OneAdder`;
  `ListLives` and `FramesLive` tie what lists and frames hold of a context to its `fate`.
  A child's close is a call inside that of its parent: `Grammar` says which frame lies
  right above which, `Descends` that of two closes in one thread the inner one is about a
  context further down, so that no loop waits for its own thread, and `TopsLive` what a
  frame may say when the call above it has returned.  A step changes the set of *spots*
  (thread and height) in one of six ways (`TurnsTo`, `Leaves`, `CallsUp`, `Pushes`,
  `PushesTwo`, `LeavesTo`); each part of the invariant has a lemma for each way.
  The hypothesis is `ClosesFromThreads`: contexts are closed and destroyed by threads, not
  by works or handlers.  A close called from the inside may find the context closing and
  returns without waiting when the thread that asks is inside it already, so its caller's
  frames say less; `MCAOContext` asserts which of its programs are such.
  On the same ground stands the count of references, `ReferencesAreCounted`: `RefsOK` says
  that the counter of a context is the number of the frames that hold a reference for the
  time of their call, of the anchors, of the `makeChild` that has not handed it out, of the
  closures in the executor, and of its owner; each way of a step adds the `Weight` of the
  frames that come and takes that of those that go.  A context that is not added yet has
  no reference but that of its `makeChild`, so `RefsOK` needs `Known`: calls, closures and
  owners are of contexts that were added, and of their parents too.
  With the types that rest on it (`StateIsTyped`: a counter never goes below zero, no
  handler is called twice) this gives all of `CloseIsComplete` (`ClosesAreComplete`).
  `ContextsOutliveTheirCalls` proves `NoUseAfterFree`.  Most calls hold a reference, or the
  call below them does; those that do not are `removeCloseHandler` of a child that leaves
  its parent, and the parent's loop that writes to a child.  What the counts do not tell is
  who lets a context go, and when: `UseInv` says of each context that it has an owner, or
  a `makeChild` that will hand it out, until it is `Closed`; that its executor is there
  until its own close is past the reset; and that while its parent has still to touch it
  (`Pending`: it is listed, popped, or being anchored) it is not closed, and if it is past
  `close.parent` still in its `removeCloseHandler` (`Taken`), whose wait ends only when
  `done` was set, after the anchor was taken.  The executor of the root is there because
  the contexts that run (`Running`) are closed under `Parent`, so the one of them that is
  nearest to the root is the root (`RootRuns`, by a minimal element, without induction).
  Assumptions: those above, and `DepthAssumption` (the tree has no cycles),
  `ThreadsAssumption` (threads are not works or handlers) and `ChildrenAssumption`: a
  child is made by a call in its parent, unless both are there from the start.
- `FutureState_proofs`.  The invariant is `Ranges`, `FlagsFollow` (the flags
  follow from where promise and future are), `SecondIsAlone` (one side at
  most is past the exchange as the second) and `FiredWhenBoth`.  `GetIsRight` needs
  `WeakMemory = FALSE`; the other theorems hold for both memory models.
  It extends `MCFutures` and also has `FutureChain`, over the promise of `CloseGate`
  alone: `ChainCallbackServesOnce` from `ChainInv`, which says who is inside the context
  (`InsideAsCoded`, so nobody while handlers are called), that every thread that may use
  the state holds a reference (`UsersHold`), that the callback goes with the last of
  them and not while the closer has it (`DeletedWithTheLast`), and that the next future
  is resolved by who took it out of the callback (`TakenThenResolved`).
- `ManageableTask_proofs`, for any number of requests.  The invariant is the
  conjunction of the four checked invariants and `BatchInHand` (the thread has promises
  in hand only while it is about to resolve them).
  It also has the tasks of `Scheduler`, as an instance: `OneTaskRuns`, for every plan and
  any number of tasks (`MaxTasks`), says that a task whose function runs is the active
  one.  That is not inductive alone: the scheduler makes a task active, or none, on
  being told that the last one has ended, so the invariant `OneRunsInv` follows the
  news of an end from where they are kept to where they are used.  Among the waiters of
  a task the closure `finished` is about that task (`WaitersOK`), in the queue and in
  the thread's hands it is about one that is at its end (`QueueOK`, `ThreadOK`), and
  while the next task is chosen there is no active one.  Assumption: `PlansAreCalls`,
  which `Scheduler` states of its constants (`PlansAssumption`): calls are calls, and
  no task is `None`.
- `Channel_proofs`, for any number of producers, readers, clients and consumers.
  `QueueIsDrainedInOrder` and `EndStaysFinal` need only that a producer's call is a
  write of a value (`QueueTyped`, `ProducersTyped`).  `SleepersAreWoken` is not
  inductive as it stands: that *somebody* awake may use a value does not outlive that
  thread's step.  Its strengthening `SleepersKept` counts: while threads of one kind
  sleep, at least as many of that kind are awake as there are values (or free places)
  for them, since each value that came woke one more.
  `SeesEveryValue` and `TakenOnce` rest on `ConsumersInv`: the list and the list in hand
  have each consumer once (`Distinct`), every one in them has got its values up to the
  one the thread is at (`UpTo`, `Reached`), but for a notifier whose context closed
  after it was asked; `ListOK` is kept by erasing, going on, and putting back in front
  of newcomers, each a lemma of its own.
  Assumptions: the threads are finitely many and of three kinds, the capacity is
  positive; a consumer is of one kind.
- `Promises_proofs`, for any number of states and slots.  `OneResolver` counts promises
  and callbacks together, so the invariant says of each (`Owed`, `OwedOnce`) and of
  states not yet made (`Blank`) that they are owed to nobody.  `OneFuture`, that a
  state without a callback is held by one future and is inside at most one other, is
  why `unwrap` may hang itself on the future inside.  The steps that bring a result
  share two lemmas (`PromisesResolve`, `CallbackResolves`).
  `CancelReaches` needs besides that a nested state is unwrapped from the start
  (`Flagged`): hence the future inside another one is not nested, and what hangs in
  front of it is what the property excepts.
- `Promises_proofs` also has `SharedFlag`, for any number of objects, flags and
  threads.  Every reference count is exact (`Counted`) because a thread that gives a
  reference up is alone with its object (`Apart`), what a thread has loaded is still there (`SeenIsTrue`), and an
  object that is dead, or about to lose its flag, shares it with nobody any more
  (`GoneIsAlone`); `Shape` ties the steps to the operations, `Grouped` is the part of
  the property about copies.  The steps that subtract, forget, create, take and store
  a reference each change one set of holders by one element, and the count with it.
  Assumptions: objects and threads are finitely many, with a flag to make for every
  object.

- `Promises_proofs`, last, has the strand, `StrandExecutor`.  The invariant `StrandInv` is
  `StrandTypeOK`, `IdleIsToken` and `RunningIsCurrent` (a work is running exactly while a
  thread runs it as its current one).  `Sequential` follows from the token: two busy
  threads would be two jobs.  `StrandIsSequenceExecutor` maps every step to a step of
  `SequenceExecutor` or a stutter (`StrandStepImplementsStep`).
- `Services_proofs`, for any contexts, timers, items, calls and connections, each
  service by itself and all of them in `Services`.  What a work in the executor may
  rely on decides: the queue is a sequence without repetition over the set of *good*
  works, which shrinks and grows with the state, so that a step is kept by showing
  that what is queued stays good.  The lemmas on `InOrder` and `Without` (`InOrderLists`,
  `WithoutKeepsOthers`, `WithoutHolds`) say what is left when contexts close.
  - `TimersInv`: a work wakes a timer that expired, in an open context, once; a timer
    that is alive has its context open, one that is deleted is named by no work.
  - `AllInv`: works bring results of items not counted yet, `FinishedCounts` that
    `finished` is their number, `BrokenIsLast` that a failure is the answer for good.
  - `ObserverInv`: of the contexts of polls only the one of the current generation is
    open, so an answer that is let in is of its own time.
  - `AssignmentsAreKept` of `DelayedProperty` with its parts named (`KeptSomewhere`,
    `KeptOnce`, `WaitersAwake`).
  - `CallsInv`: `Turn` (a call runs only when all before it have ended, or their
    contexts closed), `LinksTellStages`, and what works of the chain are about.
  - `NetInv`: an answer in the executor fits the step its operation is at, and is there
    only when asio is not asked any more.
  Assumptions: numbers are numbers, and the root context of the timers is no timer.

Left to TLC: liveness under fairness and `ENABLED`, which the prover does not
reach; induction over recursive data (`NextPowerOf2`, the sequences of
`ByteStreams`); of `ListsMatchTasks` of `Scheduler`
all but `OnlyActiveRuns`, for most of it depends on the plan (section 6, numbers 5 to 8); the refinement of
`BoundedQueue`; and what the theorems about `AOContext` state, for programs that do not
meet their hypotheses: those in which works or handlers close contexts.

## 5. What is abstracted, and client rules

- Values, exceptions and the texts of errors: a result is its kind.  The bytes of
  `ByteStreams` and the values of `Channel` are kept, as the properties are about them.
- A destructor of a value captured by a closure does nothing, but for those that hold
  an operation, whose destructor is modelled.  (That of a work that calls back into the
  strand from `clear` would lock a mutex twice.)
- The spin lock of the list, and the memory order of operations other than those of
  `setFlag`: they acquire and release, so the interleaving of steps is all there is.
- References of the word in `CloseProtocol`: they are in `AOContext`.
- `close` is not called from the start function of `startCancellableTask`: that
  call holds a block without an item, and `close` would wait for its own thread.
- Client code calls a context through a reference: nobody has the child that a
  `makeChild` is still making (`Issue`).
- A second `close` inside a work returns before the context is closed.
  `ao-context-impl.h:270` means it so; `CallsReturn` depends on it.
- A promise is satisfied once (`m_satisfiedFlag` refuses more), and continuations
  do not throw out of `futureReady`.
- A `Promise` is assigned only over one that is satisfied or moved from; `push` of a
  `CallQueue` is called with an open context; one operation at a time runs on a device.
  What happens otherwise is in section 6.
- An object of `SharedFlag` is assigned to while its promise polls it only if it has no
  flag yet (section 6).
- A handler of a timer closes the context, throws, stops or goes on; not two of these
  (section 6).

## 6. Disagreements

With runs of their own:

1. *A child closed from a work of its parent does not wait* (run
   `context_parent_work`).  `waitForClosing` allows for the number of items of
   this thread in the whole group (`impl.h:257`).  A work of the parent has an
   item but no block on the child, so `close` of the child goes on although
   one call of another thread is inside: a handler added then is never called.
2. *A future of `asyncInvoke` that is never resolved* (run
   `future_chain_invoke`).  The context begins to close between the callback's
   `addCloseHandler` and its `exec`.  `exec` refuses, the last reference to the
   first state goes, and the callback takes itself off the list before the close
   calls it; `get` of the next future waits for ever.
3. *A push that wraps and does not fit* (run `fifo_partial_push`).  The second part
   that is copied is all that is left of the data (`fifo.h:64`), so values that nobody
   has popped are overwritten, and with enough data the end of the buffer is passed.

Seen in the models, without a run:

4. *A parent closed from a work of the group does not wait for a child that
   another thread is closing* (`MCAOContext` keeps the program: with `Programs =
   {childWork}`, `ClosedParentHasClosedChildren` fails).  The child's `close` returns
   at once in the work (`impl.h:270-273`); the parent is then `Closed`, and may be
   deleted, before the child has called its handlers and left the parent's list, while
   `ao-context.h:44` says that closing a parent closes all its children.
5. *`activate` of a waiting task that was deactivated* (`MCScheduler` keeps the plan:
   with `Plans = {reactivation}`, `CallsReturn` fails).  The promise of the pause is
   not taken back (`scheduler.cpp:208`): in its turn the task is delayed, and `activate`
   does not return.
6. *`clear` meets a task that ends on its own* (`scheduler.cpp:176-181`;
   `NoDanglingTask` fails).  A task that returned while it was being preempted or
   deactivated is in a list, and its `finished` closure is still to come; `clear`
   takes a reference to it, and uses it after `finished` has erased the task.  A
   `cancel` of a task that was not started does the same.
7. *`clear` with delayed tasks and no active one* (`NothingWaitsInVain` fails, the
   assertion of `scheduler.cpp:263`).  The delayed tasks go to the waiting list; a
   `push` before they have stopped finds `m_waitedTasks` not empty.
8. *`waitAll` when the last task ends while it is being deactivated* (`CallsReturn`
   fails).  It is delayed for a moment, so `resumeNextTask` does not resolve
   `m_waitStopPromises`; `eraseTask`, which then removes it, does not either.
9. *`get` after a `waitFor` that timed out* (`FutureState` with `WeakMemory = TRUE`:
   `GetReturnsTheResult` fails).  The second flag is stored relaxed
   (`future-state.h:297`), so on a machine that reorders stores `get` may see the flag
   and not the result.

Met while reading, and kept out of the models by the rules of section 5 or because
they are of one thread:

10. Move assignment of a `Promise` over one that is not satisfied forgets the state
    (`future.h:393`): its future waits for ever.
11. `SharedFlag::operator=` on the future given to `unwrap` gives up a flag which the
    promise of that future may be reading in `cancelled()` (`future-state.h:345`,
    `ts-shared-flag.h`): it is read after it was freed.
12. In a `CallQueue`, when the context of a call closes while its function runs, the
    call behind it fails and the one after that starts beside the function
    (`CallsDoNotOverlap` says up to where order is kept); a `push` with a closed context
    throws after it has taken the end of the chain, and loses it.
13. A cancel of the outer future does not reach what is in front of a future that a
    function gave and that hung on another one already (`Given` in `CancelReaches`).
14. The connect handlers resolve their promise before they delete themselves
    (`tcp.cpp:250`, `local-socket.cpp:120`), and `DelayedProperty` resolves promises
    under its mutex: a continuation that closes the context, or calls back, meets them
    half done.
15. `consumer-list.h:20` destroys consumers with the lock held.
16. A read that `UdpSocket` has under way overwrites the address that a write uses
    (`udp.cpp:144`).
17. Two reads at the same time, or one of no bytes, on a `ConcatReader` drop a reader
    that is not at its end (`io-device.cpp:249`).
18. A read that fails loses the bytes it had got (`io-device.cpp`, `ReadOp`).
19. A handler of `setInterval` that closes the context and then throws comes to
    `catch (...)` (`timer.cpp:204`), behind which the deleted timer is used.

## 7. Not modelled

- *Executors of threads*: wrappers of `asio::io_context` without state of their own.
- *PriorityQueue, WeakList, LockableValue, RecursiveLock*: wrappers of standard
  containers and mutexes; nothing in them depends on an order of events.
- *The `DetectedDeadlock` check of `invoke`*, which only reads, and `toThread`, which is
  one `then`.
- *`readLine`*, which is `readUntil`; *`BitSeqReader`*, a cursor over a vector.
- *UDP, serial ports, socket options, addresses*: adapters of asio and the system.
- *Utilities* (`base64`, `hex`, `md5`, names and strings): sequential conversions
  without state, which vectors of tests cover.
- *Platform code, benchmarks, the build*: no state of the library.
