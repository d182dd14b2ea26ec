# Inviwo: a verification project

Inviwo is a visualization system. A user builds a network of *processors*, connected
by *ports* and steered by *properties*; the system evaluates the network whenever
something changed. Processors may hand work to a pool of threads and deliver its
results later. This directory models the core that makes this work, checks the models
with TLC and proves the most important of their properties with TLAPS.

Paths are those of `PROJECT.json`: `src/` followed by the path in the repository. The
core is `src/src/core` and `src/include/inviwo/core`.

## Inventory

| Component | State it keeps | Operations | Hard because | Modelled in |
|---|---|---|---|---|
| Worker pool (`util/threadpool`) | workers and their atomic state, task queue, mutex, condition variable | `enqueue`, `enqueueRaw`, `trySetSize`, destructor; the loop of a worker | atomic state written without the mutex by both sides; workers joined while others run | `ThreadPool`, `TaskPool` |
| Application (`common/inviwoapplication`) | the pool, the queue of functions for the main (front) thread | `dispatchPool`, `dispatchFront`, `processFront`, `resizePool`, `waitForPool`, destructor | tasks wait for the front while the front waits for tasks | `InviwoPool` |
| Background jobs (`processors/poolprocessor`) | submissions in the pool, one waiting, stop flags and counts, a delay | `dispatchOne`, `dispatchMany`, `stopJobs`, the callback of finished jobs, the delay, destructor | late and overtaken results, three options that combine, a processor that is deleted or moved while it computes | `PoolProcessor` |
| Network and evaluator (`network/processornetwork`, `network/processornetworkevaluator`) | processors, connections, lock count, the queued request, the sorted list | add and remove processors and connections, `lock`, `unlock`, `requestEvaluate`, `evaluate` | requests from callbacks inside an evaluation; exceptions half way | `NetworkEvaluation` |
| Processors and ports (`processors/processor`, `ports`) | invalidation level, validity and data of outports, changed inports, cached readiness | `invalidate`, `setValid`, `connectTo`, `disconnectFrom`, `setData` | propagation over a graph that changes | `NetworkEvaluation` |
| Properties (`properties`) | value, modified flag, callbacks, elements of composites and lists | `propertyModified`, `set` | callbacks change other properties; a list that is set loses elements | `PropertyLinks`, and their effect in `NetworkEvaluation` |
| Property links (`links/linkevaluator`) | links, two caches of them, the properties being visited | add and remove links, `evaluateLinksFromProperty` | recursion through callbacks, a cache that is cleared while it is used | `PropertyLinks` |
| Observers (`util/observer`) | lists of observers and of observables, entries to add and to remove | add, remove, notify, block | the lists change while they are walked, and notifications nest | `Observers` |
| Timers (`util/timer`) | a thread, its list of time points, control blocks | `start`, `stop`, `setInterval`, the loop, destructor | a timer is stopped or restarted while its callback is on its way | `Timers` |
| Picking ranges (`interaction/pickingmanager`, `pickingmapper`) | ranges of ids, the unused ones, the mappers that hold them | register, unregister, look up; resize, enable, move | reuse of ranges, a limit of 2^24 colours, ids drawn in an image | `Picking` |
| Picking events (`interaction/pickingcontroller*`) | a state machine, the id under the pointer | mouse events | the mapper under the pointer changes between two events | `PickingMouse` |
| Undo and autosave (`qt/editor/undomanager`) | history and position, a saver thread, files | push, undo, redo, clear, load, save, restore | a load that throws, a crash or a failing call in the middle of a copy, the end of the thread | `UndoManager` |
| Dispatcher, data, image cache, port inspectors, composite processors | callbacks; representations; images by size; inserted networks | | stale entries, lazily made representations | not modelled |
| Workspaces, canvases and events, resource manager, modules, Qt editor, visualization modules | | | conversions, the window system, numerics | not modelled |
| Lab modules (`modules/lab*`) | | course exercises, largely templates | numeric | not modelled |

How they interact. The editor changes properties and the network on the main thread.
A change of a property is carried along its links, invalidates processors downstream
and asks for an evaluation; the evaluator runs it at once or when the network is
unlocked. A `PoolProcessor` hands jobs to the pool of the application; the last job of a
submission dispatches a callback to the main thread, which sets the outports of the
processor and thereby invalidates those that depend on it. The network counts the jobs,
and whoever saves, closes or takes a picture waits for that count to be zero. Processors
that draw register ranges of ids; a mouse event looks up the id under it and calls back
into the processor, which changes properties. Observers carry the changes of the network
to the evaluator, the editor and the undo history; timers and the saver are threads of
their own. `hazards` in `PROJECT.json` lists what can go wrong in this at its line, the
parts that are not modelled included.

What makes each modelled component correct:

- the pool loses no task and runs none twice, starts them in order, runs everything it was
  given while it has workers, and its resizing and its end come to an end;
- waiting for the pool really waits, and does not deadlock with tasks that wait for the
  front;
- results reach their processor complete, in order and once, the newest submission is
  never forgotten, and the count of jobs goes back to zero;
- a processor that is valid has ready inputs and was computed from the current data; no
  request for an evaluation is forgotten; every evaluation ends;
- linked properties agree after a change, the cache says what the links say, no property
  is evaluated inside its own evaluation, and a change ends;
- observers and observables agree on who observes whom, and a notification calls each
  observer that is there all the time exactly once;
- ranges of picking ids cover the ids without gap or overlap, each has one owner, a pixel
  leads to the mapper that drew it, and a mapper that is entered or pressed is left and
  released;
- the history is where the network is, and the newest state gets into the file the next
  start offers to restore;
- a timer that runs keeps firing, a delay fires.

## Modules

| Module | Models | Uses |
|---|---|---|
| `TaskPool` | what the pool promises: an abstract queue of tasks | |
| `ThreadPool` | the pool and its workers, one step per shared access | implements `TaskPool` |
| `InviwoPool` | the application's use of it: the composition of the pool with the front queue | extends `ThreadPool` |
| `PoolProcessor` | one processor with background jobs, the network's count, the delay | |
| `NetworkEvaluation` | network, processors, ports and evaluator | |
| `PropertyLinks` | properties, composites, lists and the link evaluator | |
| `Observers` | one observable and its observers | |
| `Picking` | the picking manager and the mappers | |
| `PickingMouse` | mouse events, with the mappers of `Picking` | extends `Picking` |
| `UndoManager` | undo history, saver thread, files | |
| `Timers` | timers, delays and their thread | |
| `SequenceFacts` | lemmas about sequences, and induction over the naturals, the proofs share | |
| `*_proofs` | theorems | their component, and the proofs of what it extends |
| `MC*` | instances for TLC | their components |

Modules that one MC module extends together have names of their own for what every module
has: `ObserversSpec`, `UndoNext`, `MouseInit`, `AppTypeOK`.

Operators that end up in a mutated form (`PopKeeping`, `DelayedRecount`, ...) stand
before the definition they are a broken version of. No specification uses them; each
shows, put in the place of the original, that a property notices the mistake.

### ThreadPool

`workers` is the vector, `state` the atomic of each worker, `tasks` and `mutex` the queue
and its lock. `pc` places a worker in its loop (`threadpool.cpp` 86-110), and `call` the
owner inside `trySetSize` or the destructor. The grain is one access to shared state per
step: the state is stored by `BecomeFree`, `BecomeWorking` and `BecomeDone` on one side
and by `CompareExchange` and `Abort` on the other, without the mutex. `condition.wait`
is four steps, since the predicate (`Predicate`) and the wait (`Block`) are separate and
notifications come without the mutex. The body of a task is nothing here; starting and
finishing it are steps. The functions a thread runs when it starts and ends are left out:
the one at the end dispatches the deletion of its OpenGL context to the front and waits
for nothing (`util/rendercontext.cpp` 81-98). `PopEmpty` is the `front()` of an empty queue, whose outcome is
undefined; the thread goes to a place of its own and stays there.

`TaskPool` is what a user of the pool may rely on: tasks are started once each, in the
order in which they were submitted, and run to their end. `ImplementsTaskPool` maps its
three variables to the queue, the hands of the workers and the tasks that are finished.

### InviwoPool

Adds the main thread. `app` is where it is: in the event loop, in `resizePool` for one
of four callers, in `processFront`, closing. Front functions are abstracted to the two
kinds the pool can tell apart: one that enqueues a further task (`Follow`) and one a
worker is waiting for (`Blocking`).

### PoolProcessor

A submission is a number, in the order of the dispatches. `states` is `states_`, `queue`
the one that waits, `stop` and `count` the flag and the counter of its `State`; `waiting`
and `running` are its tasks in the pool, which runs them in any order, a superset of what
`ThreadPool` does. `front` holds the callbacks that were dispatched, in order, and
`timer` the start of `delay_` that is current, `moved` a history variable: whether the
processor was moved to another network while it had jobs. `Dispatch` is `dispatchOne` and
`dispatchMany`, whose bodies after the making of the tasks are the same; `Done` and
`DelayPassed` are the callbacks, whole, as they run on one thread. `options` ranges
over the sets of `pool::Option`, `background` is the count each network keeps.

### NetworkEvaluation

All of it runs on one thread, so what only propagates is one step: `Invalidate` is
`Processor::invalidate` with everything it reaches through the connections, `SetValid`
likewise. Readiness is cached in the code in coordinators that are updated whenever
their inputs change; here it is computed, by `OutportReady`, `InportReady` and `isReady`.
An evaluation is one step per call into a processor (`initializeResources`, the
`onChange` callbacks, `process`, the second look at the inports), and between those a
`Callback` changes any property. `First` lets the evaluation visit the processors in any
topological order; the code uses one of them. `stale`, `outdated` and `failed` are
history: what changed since a processor last read it, and whether its last visit threw. What a
processor changes of its own while it is processed does not make it stale: the code sets
it valid after `process` on purpose.

Abstracted: one outport per producer, one connection per inport, no inactive
connections, no property links (`isLinking` is false). The levels and the graph are the
code's; the data is whether there is any.

### PropertyLinks

A change is a recursion: `propertyModified` runs callbacks, evaluates links and modifies
the owner; a link converts, which is a change of its destination. The recursion is the
variable `stack`, one frame per call in progress, and a step takes the innermost one to
the next call it makes, so that callbacks and removals happen where they do in the code.
`primary` and `secondary` are the two caches, and `visited` the list that stops cycles.
An entry of the secondary cache is made one look at a time, depth first over links, owners
and elements of composites, as `secondaryCacheHelper` does: `found` is the list so far,
`todo` what its calls in progress still have to look at (`LookAtLink`, `FollowLinks`,
`Collected`). An element that a list gives up is a call of its own, "remove", in which the
network removes its links one after the other before the list lets it go
(`RemoveLinkOfElement`, `ElementRemoved`). `RemoveSurplus` and `CloneMissing` are the loops of
`ListProperty::set`. A value is a number that a leaf clamps to its `Bound`.

Abstracted: conversions between types of properties, the one cache that lists the links
between two processors, prefabs and the limit on the length of a list.

### Observers

`observers` has null entries and `toAdd` waits while a notification runs, as in the code.
`loops` has a record for each call of `forEachObserver` in progress: the entry it is at,
its `toRemove`, and, as history, who was called and who was registered throughout. A
callback may do anything the program may do outside, and notify again. With `Careful` it
leaves alone what was added in the same notification: without, the code breaks (below).

### Picking and PickingMouse

`actions` is the vector of ranges and `unused` those given back, both in the order the
code keeps them. `unregisterPickingAction` ends with a loop that removes unused ranges
from the end; each round is a step (`Trim`), `after` what the caller does when it is over.
`Pixel` and `Lookup` are the way from an id to a colour and back, with a number of
`Colours` of its own, so that a wrap-around happens in a small instance.

`PickingMouse` adds the state machine of the mouse: `Table` is its transition table, and
a transition sends its picking events one by one, because each may call back into the
program and change the mappers. The id of an event is any of `PixelId`: the image it is from
was drawn earlier. `entered` and `down` are what each mapper was told, and `stale`
those that changed since the machine was idle, of which the properties say nothing.

### UndoManager

The history (`buffer`, `head`, `dirty`), the saver with its mutex and condition variable,
and the files. A file is a sequence of blocks, a state a text of some length. The saver
writes the temporary file (`Write`) and copies it over the other (`filesystem::copyFile`,
the branch for Linux) while the stream is still open: `OpenFiles` finds the file as it is,
`CopyBlock` writes one block in place, `Copied` is the end of the copy, which does not
shorten the file, and `Close` the end of the stream, which writes what was left in its
buffer. `Buffered` are the states whose text is all in that buffer when the file is
copied. A file that cannot be opened or written in full, and a `sendfile` that returns
before the end, are alternatives of these steps; the saver does not look at what
`copyFile` returns (`undomanager.cpp:91`), so it goes on as if the state were saved.
`Crash` ends the process between any two steps, in the middle of a copy as well, and
`Start` finds what the files hold.

Two variables are history: `failed`, whether a call on a file has failed since the start,
and `saved`, the state that was copied to the end last. The first block that is written
over the file sets `saved` back to `NoState`: from there to the end of the copy nothing is
said of the file, because the code has overwritten the old state and does not have the new
one yet. `HistoryIsSaved` has four parts:

- `HeadIsCurrent`: what the history is at is the network, unless a load has failed;
- `PushedIsSaved`: the last state of the history is the one the saver takes next, or the
  one it took last;
- `IdleIsSaved`: a saver with nothing to do has copied that state to the end, unless a call
  has failed or the text was still in the buffer;
- `SavedIsKept`: a state that was copied to the end is the head of the file, and stays so
  over restarts, failing calls and crashes until the next copy writes its first block.

### Timers

`timers` is the list of the thread with the time left for each control block, `sort`
whether it must be sorted; `held` the block a timer has now. A block that no timer holds
is one whose weak pointer is expired. `Tick` is time; `finished` the future of the
callback in the front, which keeps a timer from dispatching again before it has run.

## Runs

| Run | Question | Bounds |
|---|---|---|
| `thread_pool` | Is a task ever lost, duplicated, reordered or run twice (`ImplementsTaskPool`), does `trySetSize` join a thread that runs? | 2 workers, 2 tasks, any sequence of calls, destructor included |
| `pool_abort` | Does the destructor of the pool return while workers run? **No** | as above |
| `inviwo_pool` | Does `waitForPool` wait, is each task run; do resizing and closing end when tasks wait for the front and enqueue more? | two instances side by side: sizes 0 and 2, no follow-ups, for the invariants and `EveryTaskRuns`; and, of the variables `f_...`, sizes 0, 1, 2, both tasks blocking, one following the other, for `FrontedReturns` |
| `inviwo_pool_shrink` | Does a queued task always have a worker? **No**, after shrinking from 2 to 1 | sizes 1 and 2 |
| `pool_processor` | Count (`PlainJobsAreCounted`: without QueuedDispatch and moves), order and completeness of results, that old ones that are kept are delivered (`PlainResultsReachDone`) and that the newest arrives | three scenarios: 3 dispatches of 2 jobs without and with QueuedDispatch; 2 dispatches of 1 or 2 jobs in 2 networks; all options, stops, failures, deletion |
| `pool_processor_count` | Does the count return to zero with QueuedDispatch? **No** | 2 dispatches |
| `network_evaluation` | Validity, freshness, resources, no forgotten request, evaluations end | 3 processors, 3 inports, all graphs, 2 property changes by callbacks, throws, 1 nested lock; beside it a network with optional inports and two background producers (`OptionalInputs`) |
| `network_callback` | Is a valid processor up to date when a callback changes the producer of an optional inport? **No** | 1 callback |
| `core_objects` | The components that stand by themselves: picking ranges, mouse, links, lists, observers, undo and saved files, timers | below |
| `property_links_list` | Is the list that a loop over links walks still there? **No**, when a list shrinks | 2 lists with an element each, linked elements |
| `observers` | Is nothing pending after a notification? **No** | 2 observers |
| `autosave` | Does the file hold the state that was saved last? **No** | 3 states, one with a longer text |

`core_objects` runs small instances side by side; a behaviour is of one of them, and its
`component` says of which. The module extends `PickingMouse`, `Observers` and
`UndoManager` and `PropertyLinks`, so that the properties it checks are the ones of the
theorems; only the timers are an instance. Ranges: 3 mappers, sizes 0 to 2, 7 ids, 6 colours.
Mouse: the same variables, bounded by `UnderMouse` to 2 mappers with ranges of one id,
pixels with the ids 0 to 2 (`PixelId`; the theorems hold for any), and 2 buttons, the
right one down only while the left one is. Links: five leaves, two composites with an
element each and two lists with an element each, of which three networks link some: three
leaves, one in each composite and one in none (`leaves`, up to 3 links, which can make a
cycle of three, nothing set by callbacks); a leaf and the two composites (`plain`, 2 links,
one property set by a callback); the lists and their elements (`lists`, 2 links).
Observers: 3 of them, 3 additions, notifications nested twice. Undo: 3 states, one of
which is what a failed load leaves and one longer than the others, in two instances: no
call on a file fails, with a history of 2 and 2 states to save (`undo`), and any may fail,
with a history of 1, 1 state to save and no failed load (`files`); the process may crash in
both. Timers: a timer, a delay, 3 starts, and a thread that is never more than a tick late
(`MaxLate`).

Why the bounds are enough. Two workers are needed for one to be stopped while another is
counted, two tasks for one to be waiting while another runs; the pool treats all alike.
Three dispatches are needed for one to run, one to wait and one to overtake both; two
jobs of one submission for the last to be told from the others. A chain and a join of
three processors hold the ways invalidation can meet itself: directly, through a
processor, and on two ways to the same sink. Two callbacks let one undo what the
evaluation did because of another. Three mappers give a range in the middle that is freed
before and after its neighbours; the 7th id has no colour of its own with 6 of them, and the
others must be found all the same. A text of two blocks can be cut between them, by a crash
or a call that fails, and is longer than the others. Two links make
a cycle, a chain, and a way from an element to a composite and back. Two mappers are what
a pointer can leave and enter at once. A nested notification inside a nested one differs
from it in nothing. `MaxSize`, `MaxDispatch`, `MaxCallbacks`, `MaxLocks`, `MaxIndex`,
`MaxLinks`, `MaxDepth`, `MaxAdds`, `MaxBuffer`, `MaxToSave`, `MaxCalls` and `MaxLate`
bound the models, each in the guard of the action that would exceed it; `core_objects` adds
`UnderMouse`, `Within` and `Saving`, conjuncts of its steps. `thread_pool` uses
the symmetry of the workers (it checks no liveness). Deadlock is checked for the network;
the others really stop, when they are destroyed, or when nothing is left to do.

Fairness. Threads that can run keep running (the operating system); a thread that waits
for `queue_mutex` gets it in the end, which needs strong fairness because others take it
in between (`Lock`); a task ends, once what it waits for has happened. The main thread
carries on a call it has begun and the event loop runs the front functions; the front
queue is strongly fair since the main thread leaves and re-enters `processFront`. An
evaluation is a loop of calls that return (`WF_vars(Evaluator)`), and so is the
propagation of a change (`LinksStep`). The saver and the thread of the
timers go on, time passes, a delay expires, and callbacks in the front return. Nothing is
assumed of the user: no dispatch, resize, change or event ever has to happen. The
spurious wakeup is never fair, nor is a crash.

## What the checks show: disagreements

Seven runs find that the code does something else than it says. The findings in
`PROJECT.json` quote the lines.

- `pool_abort`: the destructor of `ThreadPool` stores Abort once; a worker between its
  task and the head of its loop overwrites it, or misses the notification, and the join
  never returns. The application is safe only because it empties its pool first
  (`FrontedReturns` holds).
- `inviwo_pool_shrink`: shrinking to a size above zero can stop every worker.
- `pool_processor_count`: with QueuedDispatch, jobs are left in the network's count.
- `network_callback`: a consumer is set valid although its optional input has changed.
- `property_links_list`: a list that is set and loses a linked element clears the cache
  that the loop over the links is walking.
- `observers`: an observer that removes one that was already called leaves a null entry
  behind after the notification.
- `autosave`: the copy does not shorten the file, so a smaller workspace is followed by
  the end of the larger one that was there.

Further disagreements can be reproduced with other constants, or by leaving out a condition
of a property:

- `InviwoPool` with `Sizes = {0, 1}` and a task with a follow-up violates
  `WaitForPoolWaits`: a front function run by `resizePool` hands a task to a pool that is
  being emptied, and the emptied pool keeps it.
- `PoolProcessor` with `JobCounts = {0}` violates `LatestResultArrives`: no task counts
  an empty submission down, so its `done` is never called and it stays in `states_`.
- `PoolProcessor` with QueuedDispatch, KeepOldResults and three dispatches violates
  `PlainResultsReachDone` without its condition on QueuedDispatch: the callback that
  submits the waiting jobs returns without calling `done` for those that finished. A
  processor that is moved to another network while it computes
  (`processornetwork.cpp:128`, `compositeprocessorutils.cpp:68`) violates
  `JobsAreCounted`: its jobs stay in the count of the first network.
- `NetworkEvaluation` with `Optional = {b1, c2}`, `Throwing = {a}` violates `UpToDate`: a
  producer whose `process` has set new data and throws leaves the consumer valid when
  the inport is optional.
- `NetworkEvaluation` with `CallbackLevels = {2}` violates `ResourcesRemembered`: a
  callback that asks for the resources of the processor that is being processed is
  forgotten when that is set valid. The proof of `ResourcesKept` assumes it away.
- `Observers` with `Careful = FALSE` violates `RegistrationsAgree`: an observer that is
  added and removed within one notification is added after all when it ends, and is then
  called though it may be destroyed.
- `PropertyLinks` violates `NoCircularLinks` and `LinksAgree` without their condition
  `Plain`, with three links and a property set by a callback, or with linked composites
  and no callback at all: the destructor of `VisitedHelper` removes what an outer one
  has put into `visited_`, which is there "to make sure we don't end up in circular
  links" (`linkevaluator.h:97`).
- `UndoManager` violates `SavedIsKept` when `CopyBlock` leaves `saved` as it is: a crash in
  the middle of the copy, or a `sendfile` that stops there, leaves the head of the new state
  before the rest of the old one, and the next start offers that to restore. Without its
  condition on `failed`, `IdleIsSaved` is violated too: nobody hears of a copy that failed.
- `UndoManager` violates `HeadIsCurrent` without `network # Broken`: a load that fails in
  `undoState` or `redoState` is logged, and the head moves and `dirty_` is cleared as if
  it had not.
- `Picking` with fewer colours than ids violates `PixelFindsMapper` without its condition
  `id < Colours`: the ids beyond share the colours of others.

Read in the code while modelling, without a run of their own: a reused picking range keeps
the `enabled_` of its last owner; a mapper that was moved from and lives on unregisters a
range it no longer has; a mapper that is resized in its own callback destroys the function
that runs; the touch states keep raw pointers to ranges (`pickingcontroller.cpp` 102-107);
picking that is disabled while a button is down leaves the mouse in `pressing`; undo while
there are changes that were not pushed yet drops them; `ListProperty` stops one element
short of its limit (`listproperty.cpp` 171, 225); and the destructors of the saver
(`undomanager.cpp:97`) and of the timer thread (`timer.cpp:53`) notify without the mutex,
so that the notification can come between the check of the flag and the wait. The models
of the last two contain that order of steps; their join is then never reached.

## What is proved

The theorems hold for every value of the constants the assumptions allow: any number of
workers and tasks, any graph of processors and ports, any number of mappers, buttons,
observers, states and dispatches, any bounds.

`ThreadPool_proofs`:

- `TypeCorrect` (`TypeOK`) is inductive as stated: it says that a worker has a task in
  hand exactly where it should, and that the loops of the owner stay in the vector.
- `TaskSafety` (`EachTaskInOnePlace`): each step moves a task from one place to the next,
  and only a fresh one comes in; with `TypeOK`, by cases over the actions.
- `Refinement` (`ImplementsTaskPool`): the initial states map to those of `TaskPool`, and
  with the two invariants above every step maps to a step of it or changes nothing there.
  Resizing, notifying and joining are invisible to the users of the pool.
- `ShrinkSafety` (`ShrinkNeverBlocks`): `ThreadInv` relates the state of each worker to
  its place (`DoneHasLeft`: only the last step of a thread stores Done) and the vector to
  the threads (`WorkersHaveThreads`: each worker of it is there once and has a thread), so
  a worker that reads Done has left its loop and its join returns at once.

`InviwoPool_proofs`, about the application around the pool:

- `UsesPoolLegally` (`AppSpec => Spec`): each step of the application is a step of
  `ThreadPool` or leaves the pool alone, so the theorems above hold of the pool inside the
  application. `AppTypeCorrect` (`AppTypeOK`) adds the front queue and what is asked of
  it.
- `NoEmptyPop` (`NeverPopsEmptyQueue`), for any sizes, any front functions: `Control`
  says where the main thread is when it calls the pool (in particular that the pool is
  destroyed only when it is empty), and `PopInv` that a worker between the wait and the
  pop holds the mutex and was told to stop or has a task.
- `QueueIsServed` (`QueuedTaskHasWorker`), when the pool is only emptied and filled:
  `TwoSizes` and `Calm` say that nobody who was told to stop is left outside `resizePool`.
  `inviwo_pool_shrink` shows that other sizes break it.
- `WaitIsLongEnough` (`WaitForPoolWaits`), when besides no front function enqueues:
  `LastOutEmptiesQueue` says that a worker leaves, and the vector becomes empty, only
  when no task is queued. The disagreement above shows why follow-ups are excluded.

`NetworkEvaluation_proofs`. Reachability is the intersection of the sets closed under
"downstream of", so the lemmas on `Downstream` (it contains its roots, is closed, is the
smallest such set, is transitive, and does not grow outside of a closed set in which
connections change) need no induction.

- `TypeCorrect` (`TypeOK`), from an invariant that also knows that a running evaluation
  holds exactly one lock and that only processors of the network are connected.
- `ValidInputs` (`ValidIsReady`): no processor is valid while an input it needs is not,
  whatever is connected, removed, thrown or changed by callbacks. The property is not
  inductive. `ReadyInv` adds `Wiring` (a connection joins two different processors of the
  network) and `OutportFollows` (the processor being visited is invalid, and so is the
  outport of every invalid processor whose results do not come from the background).
  Then a processor that becomes valid makes its own outport valid and no other, and
  what makes an outport invalid makes everything downstream of it invalid in the same
  step.
- `CurrentData` (`UpToDate`): a processor that is valid has read everything that changed.
  `DataInv` adds `ReadAll`, which says where in the evaluation a processor has read its
  inputs; it is inductive as long as the readers of a processor that is about to write are
  invalid (`ReadersWait`). With `Optional = {}` that follows from `ReadyInv`, whatever
  throws and callbacks change. With optional inports a valid processor may depend on an
  invalid one, and the theorem assumes that nothing throws and callbacks change nothing:
  `LeftOut` says that such an invalid one is not ready, so that it is not processed, and
  `Calm` that an evaluation goes on as it began, so that all upstream of a processor that
  becomes valid has been visited. `network_callback` and the disagreement with
  `Throwing = {a}` show that neither assumption can be dropped. The network with optional
  inports of `network_evaluation` is an instance of the theorem.
- `ResourcesKept` (`ResourcesRemembered`), for callbacks that do not ask for resources:
  `ResourceInv` adds `Prepared`, that the processor being processed has none to
  initialize. The counterexample above shows that the assumption is needed.
- `AllEvaluated` (`NothingForgotten`): after an evaluation every processor a sink depends
  on is valid, not ready or has thrown, and no request is left. `ProgressInv` follows the
  visits: nothing that a visited processor reads is still to be visited, so its readiness
  stays as it was; and as long as no request is queued, each visited one is valid, not
  ready or failed. A callback that invalidates a visited processor queues a request.

`PoolProcessor_proofs`. `TypeCorrect` is `TypeOK`. `Inductive` is the invariant `IInv`, of four parts: `Typed`;
`Tasks` (a submission is counted down once: when its callback is on the way its count is
zero, the callback is there once and the state is still in `states_`); `Order`
(submissions are made in order, the one that waits is the newest and nothing has happened
to it, and it waits for a delay or for queued jobs); `Newest` (without KeepOldResults all
but the newest are stopped, and the newest is on its way, waiting, stopped, failed or
shown). From it:

- `CallbackFindsState` (`StateFound`), the assertion of `removeState`;
- `ResultsReady` (`DoneHasResults`): `done` waits for no future that stays empty;
- `OutputSettles` (`SettledOutput`) and `NewestIsDone` (`DoneIsNewest`): no result that
  was overtaken is shown, and the newest one is;
- `JobsCounted` (`PlainJobsAreCounted`): the count of the network is the number of pairs
  of a submission in `states_` and one of its jobs, and one for a delayed dispatch. The
  lemmas about it give how its cardinality changes when a submission comes or goes;
- `KeptResults` (`PlainResultsReachDone`), an action property: a step that removes a
  submission that was not stopped calls its `done`.

`Picking_proofs`. The invariant describes the list of ranges (one starts where the other
ends), who owns each (a live mapper, or the list of unused ones, sorted by capacity), and
what is special inside the clean-up loop and for a mapper whose call is not over. The
list of ranges changes in three ways (update in place, append, drop the last), with one
lemma each.

- `TypeCorrect` (`TypeOK`); `NoGaps` (`RangesFollow`); `OneOwner` (`RangesOwned`);
  `PixelsFound` (`PixelFindsMapper`): every id with a colour of its own leads to its range,
  for any number of colours, also when more ids than that are handed out;
- `MouseMovesMappers` (`MouseSpec => Spec`): the callbacks of picking events do to the
  manager what mappers may do, so the four theorems hold under the mouse too;
- `HoverIsRight` (`HoverFollowsPointer`) and `ReleasesAreTold` (`NoButtonSticks`): between
  two events a mapper that was left alone was entered once more than it was left exactly
  when it is under the pointer, and has been told of every release. `MouseInv` says, for
  each form the list of actions that are still to be run can have, what the mappers know:
  the pointer is outside (`Outside`), about to leave (`Leaves`), stays where it is
  (`Stays`), or the transition is over (`Done`). That what one mapper does leaves alone
  the ids of another rests on the lemmas about the ranges: a range is not reused, moved or
  enabled but by its owner, so the look-up of an id leads where it did.

`ObserversUndo_proofs`, two components. The observers, for a program that leaves alone the observers it adds in a notification
(`Careful`; a disagreement above is what happens otherwise):

- `Registrations` (`RegistrationsAgree`): `OnceEach` says that an observer is in the vector
  or waits to get there, in one place only.
- `NotifiedOnce` (`EachCalledOnce`): for each notification in progress `LoopInv` relates
  the entries that were passed to those who were called; while it runs, entries become
  null but never move.

The undo history:

- `UndoTypeCorrect` (`UndoTypeOK`), and `HistorySaved` (`HistoryIsSaved`), for any texts,
  any buffering and any order of the two threads, with calls on files that fail and crashes
  at any step. `SaverInv` is the loop invariant of the copy: the blocks that were copied
  are those of the temporary file, which holds the whole text if it has left the stream and
  no call has failed. So when the loop ends the file begins with that text (`SavedIsKept`),
  and a saver that is idle again has got there (`IdleIsSaved`). What a crash in the middle
  of a copy leaves is not the state that was saved last, and the theorem does not say so:
  `saved` is `NoState` from the first block to the end of the copy.

`PropertyLinks_proofs`, for any properties, composites, lists and links:

- `LinksTypeCorrect` (`LinksTypeOK`) and `CacheCurrent` (`CacheIsCurrent`), with
  composites linked, lists set from one another and callbacks that set anything. Both come
  from `CacheInv`. What it has to say beyond the property is about the search that makes a
  list: `SearchFor` is its loop invariant. The list so far is `Straight` (no link leads to
  an end of one before it) and `Leading` (each link starts where the property or the links
  before it lead), and every link that starts there is in the list or `Pending` in what is
  still to be looked at. When nothing is left to look at that is `ListIsCurrent`. A link
  that is added or removed empties the secondary cache, a link of an element that leaves
  its list is removed before the element goes (`LinksOK`: only properties that are
  `Present` are linked), and no change of the links comes between two steps of a search,
  because a search is always the innermost call (`StackOK`).
- `LinkedAgree` (`LinksAgree`) and `NoneCircular` (`NoCircularLinks`). `LinksInv` adds
  what the calls in progress are (`Proper`) while the network is `Plain`. `Above` says which
  calls one can be above: there is at most one loop over links of a property with a value,
  and the composites that are modified within it have no links and loop over nothing.
  What is visited is then exactly what that loop goes over (`Looping`), so a destination
  does not start a loop of its own, and each link that was passed still agrees because no
  later link of the list leads to an end of an earlier one (`Straight`). The condition is
  on the state and not on the past: links between composites may have been there before.

TLC agrees with `CacheInv`, `LinksInv`, `ReadyInv`, `DataInv`, `ResourceInv`, `ProgressInv`, `ThreadInv`,
`MouseInv`, `ObserversInv`, `UndoInv`, the invariant of `Picking` and those of `InviwoPool`
on the constants of their runs, with `CalmInv` on small networks with optional inports, and
with that of `PoolProcessor` for two dispatches in one network.

Induction over data is used in one form: `NatSetInduction` of `SequenceFacts` says that a
set that holds 0 and the successor of each of its numbers holds them all, which needs no
operator as a parameter. The facts about `Front`, `RemoveAt`, `InsertAt`, `ToSet` and
`Cardinality` the proofs need are lemmas there and in the modules.

Only model-checked:

- everything temporal (`FrontedReturns`, `EveryTaskRuns`, `LatestResultArrives`,
  `EvaluationEnds`, `PropagationEnds`, `NewestIsSaved`, `TimerFires`): liveness under
  fairness is out of the prover's reach;
- `Timers`, whose property is liveness, with its part of `TypesOK`; the other three types
  in that conjunction are those of theorems;
- `OptionalInputs`, which states four properties of a second network in one run: each of
  them is an instance of a theorem.

## Not modelled

Most of the repository is not Inviwo: the vendored libraries under `src/ext` and
`src/modules/*/ext` (nlohmann json, CImg, GLEW, libtiff, libjpeg and others) make up the
bulk of its lines, and most of what is left converts data or draws it. The
models cover the stateful core named above and only a small share of all lines.

- The Windows and Mac branches of `copyFile`, a crash of the machine (what the system has
  not written to the disk yet), and a file that is changed by another program.
- Data races proper (the vector of workers read by `enqueue` on a worker thread, the
  future of the progress bar) have no outcome to enumerate.
- Serialization, widgets, canvases, the events other than those of the mouse and the
  OpenGL context convert data or belong to the window system. The Qt application overrides
  `resizePool` with a version that also processes events of the window
  (`inviwoapplicationqt.cpp` 205-243); the loop is the same, the events would only add
  user actions inside it.
- The representations of data, the image cache, the dispatcher, port inspectors and
  composite processors: see the plan.
- Copying and moving of observers, touch and gesture states, prefabs of lists, inactive
  connections and processors with several outports; each component's note in
  `PROJECT.json` says what is left out of it.
- Visualization and lab modules: numeric algorithms, the latter largely templates.

## Plan

1. `PoolProcessor` together with the network: results that invalidate consumers, and
   `DelayInvalidation`; property links inside an evaluation (`isLinking`).
2. `Data`: representations, validity and the race of their creation; `ImageCache`: images
   that are never stale.
3. Port inspectors and composite processors as uses of the network.
4. The bounding volume tree and the binning of the lab modules, against their
   definitions.
