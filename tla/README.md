# DFTracer utilities: a TLA+ verification development

This directory models the DFTracer utilities in TLA+ on two levels. Below: the
coroutine primitives, the task-graph scheduler and the thread pool on which
everything else runs. Above: what the tool does with traces, as far as being
wrong would go unnoticed: the index of a directory of traces, the pruner that
skips chunks from it, the parallel scan that streams rows, and the materialized
views that stand in for a trace. TLC checks small instances of every model;
TLAPS proves the most important safety properties for every instance.

Paths below are relative to the repository. `core/`, `trace/`, `query/` and
`indexer/` stand for the directories of those names under
`include/dftracer/utils/` and `src/dftracer/utils/` (`indexer/` for
`utilities/indexer/`).

## 1. Inventory

### 1.1 The parts that are modelled

| Part | State | Operations | Who calls it | What is hard | What makes it correct |
|---|---|---|---|---|---|
| **Channel** `core/coro/channel.h` | lock-free item queue, slots, pending-item and producer counters, active sends, two flags, two lists of suspended coroutines, two condition variables | `send`, `try_send`, `receive`, `blocking_receive`, producer guards, `close` | every streaming pipeline; producers started by `CoroScope::spawn_producers` | fast paths outside the mutex beside slow paths inside it; hand-off to a suspended peer; two reasons to be closed | each item delivered once; end of stream told only at the end; nobody left suspended; every loop returns |
| **AsyncMutex** `core/coro/async_mutex.h` | one word (free, locked, or top of a stack of waiters) and a list that only the owner touches | `lock`, `unlock`, guard | coroutines that share an object | CAS loop, pointer reversal while others push, inline resumption nested in `unlock` | mutual exclusion, first come first served, nobody lost |
| **CoroSemaphore** `core/coro/async_semaphore.h` | permits, a FIFO of waiters under a mutex | `acquire(n)`, `release(n)` | byte budgets of scans | requests of any size, clamped on one side only | no overtaking; permits conserved for requests within the capacity |
| **Scheduler** `core/pipeline/scheduler.cpp`, `core/tasks/task.cpp`, `task_result.cpp`, `core/pipeline/pipeline.cpp` | per task: result state, parents left, readers left; global: pending count, error and shutdown flags, timeout reason | `schedule`, `on_task_completed`, `skip_task_and_descendants`, `submit_dynamic_task`, `request_shutdown`, the watchdog's callback | `Pipeline::execute` | workers finish at once and race for a child, for a skipped descendant and for the last decrement, while a user, a timer and the watchdog stop everything | dependencies respected; each result final; values live while they are read; the call returns, once, with a true verdict, after the last task |
| **Thread pool** `core/pipeline/thread_pool_executor.cpp`, `core/runtime.h` | run queue, run permits, per-worker hand-off state, live-worker list, counters | worker loop, `enter_blocking`/`exit_blocking`, sysmon, elastic monitor, `shutdown`, `Runtime::run_blocking` | everything that resumes a coroutine | a worker that waits gives its permit away behind its back; workers come and go; try-locks and timed waits | permits neither lost nor made; at most the cap runs; queued work runs; shutdown returns |
| **Query language** `query/ast.h`, `evaluator.cpp`, `subsumption.cpp` | none | evaluate a predicate on an event; prove that one predicate contains another | scans, the pruner, views | absent fields, values of several types, strict and open bounds | a proof of containment is never wrong |
| **Chunk index and pruner** `trace/visitors/bloom_core.cpp`, `trace/indexing/chunk_pruner_utility.cpp`, `chunk_dimension_stats.cpp`, `trace/views/bloom_fold.cpp` | of every chunk and field: type, range, dictionary, Bloom filter | observe, merge slices, seal; rule chunks out | scans with a query, `narrow()` | statistics that are capped, missing, or change type; negation | no chunk with a matching event is ruled out |
| **View store** `trace/views/mv_store.cpp`, `view_executor.cpp`, `view_export_index.cpp` | directories with parts, a manifest and a lock file; the trace itself | `run_materialize`, `redirect_reads`, eviction | queries; several processes share the directories | nothing shared but the file system: crash, eviction under a builder, a base that changes | an answer from a view is the answer from the trace |
| **Streaming scan** `trace/views/fold.cpp`, `stream_row_fold.h`, `view_source.cpp` | next unit, coverage, byte budgets, channels, stop flags, the cursor's open slice | `fuse`, `open_stream`, `open_batch`, `next`, `narrow`, abandoning a cursor | the dataframe engine | cursors come and go while workers are parked on their budgets; failures of single workers | every row once; a kept cursor ends, an abandoned one stops nobody |
| **Index store** `trace/indexing/index_resolver_utility.cpp`, `resolve_and_build.cpp`, `indexer/index_batch_builder_utility.cpp`, `index_database*.cpp` | registry of files with hash and stamp, contents, root summaries, of which a part is on disk | `resolve_and_build_index` | every command that opens a directory of traces | sources that change at any moment, parallel parse and commit, a crash at every step, no log | what resolves as fresh describes the present file, wholly; the sums are the sums |

How they interact. A pipeline's tasks run on the pool; completing one calls back
into the scheduler on the worker, which enqueues children. Tasks are coroutines
that may suspend on channels, mutexes and semaphores; whoever releases them
enqueues their handles again, so a suspended coroutine depends on another actor's
next step and never on a poll. A task that waits synchronously (`run_blocking`)
blocks its worker, and the pool replaces it. The watchdog observes the pool and
stops the scheduler. A read of a trace resolves its index (and builds it), is
redirected to a view if one subsumes the query, prunes the chunks that are left
and scans them in parallel into channels with byte budgets.

### 1.2 The other parts

| Part | Why it is not modelled |
|---|---|
| `coro/async_once.h`, `when_any.h`, `when_all.h`, `join_handle.h`, `completion_latch.h`, `spawn_future.h`, most of `coro_scope.h`, `coro/task.h`, generators | what can go wrong in them is memory order and the lifetime of frames, which these models do not have. A coroutine is a process, a scope's join a step of its parent |
| `pipeline/watchdog.cpp`, `common/timer_service.h`, `pipeline/run_loop.cpp` | their effect on the scheduler is modelled (`Alarm`, the timeouts); their loops are threads that poll |
| `common/memory_budget.h`, `object_pool.h`, `buffer_pool.h`, `cache/` | one critical section or atomic update per operation; sequential data structures |
| `io/`, `rocksdb/`, `mpi/` | the behaviour is that of the kernel or of a library. What the index relies on in RocksDB is in `IndexStore` |
| aggregation, statistics, comparison and the other folds of `trace/`; `dataframe/` | data-parallel kernels, sequential per batch: a model would repeat the program |
| gzip checkpoints of `indexer/`, `utilities/reader` | results depend on the bytes of compressed streams |
| the lexer and the parser of `query/`, `json/`, `task_graph/`, typed tasks, configuration | front ends without state |
| plugins, server, python, binaries | wrappers and wiring |

`PROJECT.json` lists every component with its files and every hazard with its
line and the properties that watch it; a hazard whose "note" says so is what the
code does, and the runs stay clear of it.

## 2. How the project was laid out

The order was: the primitives (`Channel`, `AsyncMutex` against the abstract lock
`FifoLock`), then `Scheduler` and `Executor`, then from the results that a user
reads downwards: `Query` and `Subsumption`, on which `ChunkPruner` and
`ViewStore` stand, `CoroSemaphore` and the scan above it (`StreamScan`), and the
index (`IndexStore`). `MCViewStore` and `MCChunkPruner` compose the store and the
pruner with the query language: what a predicate matches and what is said to
subsume what are computed by the translated evaluator and prover, not assumed.

What would come next: the aggregation tier beside `IndexStore`, and the refinement of an
abstract view (a set of rows with a version) by `ViewStore`.

## 3. The modules

### 3.1 Channel

`Channel.tla` has one process per sender, per receiving coroutine, per blocking
thread and per caller of `close()`. `pc` is where it stands in the code; a step
is one critical section of `state_mutex_`, or one access to the lock-free queue
or an atomic counter outside of it. The names follow the code:

| Model | Code |
|---|---|
| `queue`, `slots`, `pending`, `np`, `had`, `active` | `queue_`, `available_slots_`, `pending_items_`, `num_producers_`, `had_producers_`, `active_sends_` |
| `closed`, `userClosed` | `closed_`, `user_closed_` |
| `sendWaiters`, `recvWaiters` | the lists of suspended awaitables |
| `SendHandOff`, `SendEnqueue`, `SendPark`, ... | the branches of the send awaitable's `await_suspend` |
| `TrySend...` | `try_send` |
| `FastDequeue`, `LockedDequeue`, `Wake...`, `Blocking...` | `receive` and `blocking_receive` |

Reductions. A resumption or notification that follows a critical section
belongs to its step, because all it does is to enable another process, which may be slow. The
three loads of `maybe_notify_terminal` are one step. The queue is a set: the
library orders only the items of one producer. `Exact` says whether
`try_dequeue` may fail beside an item, which the library allows while another
dequeue is under way: the safety run takes `FALSE`, liveness and the end of the
stream need `TRUE`, the other theorems hold for both. Spurious wake-ups and the destructors of awaitables are
left out.

### 3.2 AsyncMutex and FifoLock

`AsyncMutex.tla` keeps the word `state_` as a pointer value (`NotLocked`, `Null` for
locked without waiters, or a coroutine's node), the `next_` pointers, the list
`waiters_` of the owner, and where each coroutine stands in `lock()` and
`unlock()`. `unlock()` resumes the next owner *inside the call*; the model keeps the calls that
wait for their nested calls to return, and a coroutine may migrate to another thread at
a suspension. A weak CAS that fails for no reason is a stutter. `Null` is one
value because the code's `LOCKED_NO_WAITERS` is the null pointer.

`FifoLock.tla` is what callers rely on: an owner and a queue. `AsyncMutex`
implements it under the mapping that reads the owner from `pc` and the queue
from the two linked lists (property `ImplementsFifoLock`).

### 3.3 Scheduler

`Scheduler.tla` names a worker by the task it runs. `pc[t]` follows task `t`
from the queue through its function, its result, and its
`on_task_completed()`: counting the children down (`todo`, `child`), preparing a
ready child's input, skipping descendants (`skip`), reporting progress, and the
final decrement and notification. `Main` is the thread in `Pipeline::execute`,
`Alarm` whoever calls `request_shutdown()` or the watchdog's callback.
`Parents`, `Sources`, `Dynamic` and the options of the configuration are constants.

Reductions. There are as many workers as runnable tasks. The result, the join of the task's
scope and the notification of the executor are one step; so are all reads of parents'
values for one child with their releases, and the three loads at the top of
`on_task_completed`'s tests of a stop. The recursion of the skip is a work-list,
and children are taken in any order. A task belongs to one call of `schedule()`.
Not modelled: type validation, completion callbacks, the error handler, a
source whose preparation fails, results without readers of type `void`, and a second `execute` of the *same*
pipeline.

### 3.4 Executor

`Executor.tla` has one process per worker slot, the sysmon, the monitor, who
calls `get_progress()` and who calls `shutdown()`. A job is a coroutine that
calls `run_blocking()` on a given sequence of inner jobs and then ends.

| Model | Code |
|---|---|
| `permits`, `blocked`, `live`, `mutex` | `permits_`, `blocked_workers_`, `workers_` with `live_workers_`, `workers_mutex_` |
| `holds`, `blk`, `retire` | the fields of `WorkerContext` |
| `Loop`, `Acquire`, `NoPermit`, `PermitWake`, `Fetch`, `Release`, `Unpark`, `Leave` | `worker_thread`, `acquire_permit`, `release_permit` |
| `Enter`, `Count`, `Uncount`, `Exit` | `enter_blocking`, `exit_blocking`: two steps each, as in the code |
| `Sysmon...`, `Handoff`, `EnsureRunningWorker` | `sysmon_loop`, `ensure_running_worker` |
| `Observe`, `Grow`, `Shrink`, `Tell`, `Join` | `monitor_loop`, `retire_worker` |

Reductions. Time is abstract: a blocked worker may or may not have been blocked
for long enough, a park may end at any moment. The queue is a set. Giving the
permit up and counting oneself idle are one step, as are the loads of
`ensure_running_worker` and of the monitor's look at the pool. Worker slots are alike and are used again.
I/O polling, the registry of tasks and the destruction of frames are left out.
`blocked = -1` stands for the wrapped `size_t`.

### 3.5 Query, Subsumption, ChunkPruner

Sequential, and about data, so that it is the data that is abstracted. A value
is its type and its rank, and the string of rank n is the text of the number n:
the index stores texts and does not tell the two apart, the evaluator does.

`Query.tla` is the AST and `Meaning`, the evaluator: the events that match. A test of an absent field is
false, values of different types do not compare, `not` is plain negation. The nodes that occur
are a constant, `Queries`, that has the operands of its nodes, so that evaluation is a function.
`Subsumption.tla` is `query_subsumes`: `Flatten` turns a predicate into
intervals, value sets and residuals per field (a bound is twice its value, one
further inside if it is strict), `ConjSubsumes` compares them field by field.

`ChunkPruner.tla` builds an index and judges queries by it. `Observe` and
`MergeSlice` gather statistics of slices, in any cut and order, `Seal` stores
them for a chunk; the fields `may` and `all` of `Prune` are the pruner's two mutually
recursive evaluations, the chunks where some event may match and some where every event does, `FileMayMatch` the test of the file's filters. A Bloom
filter is the set of what was added: a false positive only keeps more.
Dimensions found in the file, whose filter is dropped when they have many values,
dictionaries that are not stored when they are large (`ValueCountsCap`), and the
modular conversion of numbers (`Wide`) are there because they are what a wrong
"no" could come from.

`TraceQuery.tla` puts the two side by side: the events of the trace are those that a view
must not lack when it is said to answer a query.

### 3.6 ViewStore

Builders run `run_materialize` and readers `redirect_reads`, each in a process of
its own; what they share is `store`: directories, manifests, parts, and who holds
a directory's lock.

| Model | Code |
|---|---|
| `AlreadyBuilt`, `NotFresh`, `materialize_view_dir`, `lock_view_dir`, `LockFails`, `Recheck` | the tests and the lock of `run_materialize`, in order |
| `Gather`, `Produce`, `Consume`, `Join` | `run_export_trace_indexed`: producers that send chunks into a channel, one consumer that rolls parts |
| `GatherFails`, `ScanFails`, `WriteFails`, `ConsumerThrows` | what can fail in it, see below |
| `register_view`, `WriteManifest`, `unlock_view_dir` | the manifest is truncated, then written; the lock's destructor |
| `PlanBases`, `Visit`, `Size`, `Scan`, `ReadFails` | `find_subsuming_view`: a loop over the directories that evicts stale ones, and the scan of what it chose |
| `Crash`, `AppendChunk` | the process dies at any step; the trace grows |

The trace is a sequence of chunks and its version their number, which stands for
size and modification time. A directory that is removed takes its lock file
along: its builder goes on writing to no effect. A build that is cut short leaves its parts behind; the
next one truncates only those that it opens itself (`trace/views/view_export_index.cpp`:130) and a reader
takes every part there is (`mv_store.cpp`:226), so that rows can come twice. The
properties therefore ask for exactly one copy of a row only while nothing went
wrong (`faults = 0`), and for no foreign row always.

*Failures.* `scope.spawn` gives a future that nobody in a build or a scan reads.
An exception in `gather_units` (`view_scan.cpp`:128-135, 151-153), in a producer's
scan or in the consumer ends that coroutine and nothing else. `ok` stays
true, so the view is registered without the chunks that were left; a cancelled
plan makes the producers return early to the same effect (:268, :274). Only a
write that *reports* failure sets `ok` (:240). The model keeps a record of what was
lost on the way: `omitted` while a build runs, `holes` of a registered directory,
`missed` by a read. `AnswerIsRight` and `RegisteredIsWhole` say that no row is missing
for any other reason, and `RegisteredIsWhole` that there are no holes while no scan has
failed and no consumer has thrown (`NothingLost`). The lost rows themselves are what the code does, although its comments say
"Fail loudly: dropping the file would silently omit its events from the result"
(`view_scan.cpp`:128) and "A planner error must propagate" (:151). A
reader loses rows in two more ways: its own scan fails in the same coroutines, and a view
may be evicted by somebody else after it was chosen and before its parts are
opened, which makes them throw. `Lacking` says which.

*The channel.* `Produce` waits for one of `Slots` places (`2 * num_producers + 1` in
the code, at most 33). When the consumer has stopped, by a failed write or an exception,
`~ChannelConsumer` does nothing, and nobody takes anything out any more: as soon
as the channel is full the producers park for ever, and with them the
scope and the lock of the directory. That is `Parked`, the one case that `EverybodyReturns` excepts.

*Simplified.* A chunk's rows are one batch, sent whole or lost; which chunks share a file is
left open, so any set of chunks may fail together; one producer stands for all
(chunks are sent in any order); an eviction and a reader's scan are one step each. Not in the run: an append
while a builder has a directory chosen (the code then registers the new identity
for the old rows), and views with other part sizes.

### 3.7 StreamScan and CoroSemaphore

`CoroSemaphore.tla` is the semaphore as a value: `Acquire` and `Release` are what
happens under its lock. `StreamScan.tla` has a process per worker of `fuse`, one
per cursor, and the coroutine that joins the workers (`Join`, `SendFrame`).
`Init` chooses between `open_stream` (one cursor, which may `Narrow`, call after call and file after file, and whose
`Abandon` cancels the scan) and `open_batch` (several, one of which gets a frame
from the slices that the workers summed up). A worker claims a unit
(`Claim`), waits for the decoding budget (`Admitted`), and for every batch visits the folds in
order (`AddUp`, `Ignore`, `Step`, `Send`, `Stepped`) before it seals the unit;
`Throw` is a failed read. There are as many workers as slots, but no more than
units (`WorkersAssumption`; `trace/views/fold.cpp`:378): a scan with units has a worker. A cursor gives a morsel in slices (`Receive`,
`Resume`) and returns its bytes with the last one; one that is destroyed sets its flag
and then releases as many permits as there can be (`Unpark`).

Not in the model: morsels larger than a cursor's whole budget (they are clamped
when acquired and not when released, so that the budget grows; the decoding
budget, which has the same semaphore, does meet such a unit in the run),
`next()` with a limit of zero rows, a row limit of the plan, and units that are materialized.

### 3.8 IndexStore

One process runs `resolve_and_build_index` again and again (`Resolve`, `Discard`,
`ReadHash`, `ReadStamp`, `Prepare`, `Parse`, `Commit`, `Finish`, `Summarise`), the traced program
changes or touches files at any moment (`Change`), removals, parses and writes fail (`DiscardFails`,
`ParseFails`, `WriteFails`), and the process may die at any step (`Crash`).

| Model | Code |
|---|---|
| `source` | of every trace file its content (a version), the hash that the code would take of it, and its stamp (mtime and size) |
| `draft` | what `prepare_file_identities` has read of each file so far |
| `reg` | the registry: the hash and the stamp a file was registered with |
| `data`, `dims` | of which contents there are data, and who has the Bloom tier: two column families |
| `diskData`, `diskDims` | what was flushed; a crash leaves only that |
| `root` | the root summaries |
| `lost`, `behind`, `blind` | history: files whose data a failed parse, a failed write or a crash has lost; a build that died before it summed up; files changed in a way that their registered hash does not show |

The hash is not the content. `calculate_file_hash` samples the size and the first and last
64 KB (`indexer/internal/helpers.cpp`:54-103), so a `Change` is one of three: at the ends, which changes
all of content, hash and stamp; in the middle, which keeps the hash; a touch, which changes
the stamp only. And hash, mtime and size are read one after another
(`index_batch_builder_utility.cpp`:68-71), so a file can change between `ReadHash` and
`ReadStamp`. Either way the writer finds the hash that it knows, keeps the old contents and
refreshes the stamp (`index_database_writer_context.cpp`:315). A file to which this may happen is `blind` until its directory is
discarded or a later change shows in its hash, and the properties except it. A
plain call that notices the new stamp discards the directory and with it the old data; a call
with `force_rebuild` does not, nor a build that is running.

Opening the database, committing and closing it is one step, because closing
flushes; `FlushData` and `FlushDims` are flushes under memory pressure in
between, each column family on its own. A removal of the directory that fails or dies
half-way leaves it whole or unreadable; the resolver takes the latter for empty
(`index_resolver_utility.cpp`:216). Not in the model: a directory that cannot be opened for
writing either, with which every call throws; a change between the reads of mtime and size; stamps, hashes or
contents that return (an mtime has a resolution of one second); a commit that throws
ends its write worker, and were all of them to end so, the parse workers would park
in front of a full channel (the model drops the batch and goes on); the aggregation tier;
staging to scratch; several roots; a changed checkpoint size;
rows of old column statistics that `delete_file_contents` leaves.

## 4. The runs

Every property of a passing run has a mutant of the model, a plausible bug in
the mapped definition, that the run finds.

| Run | Instance | What it shows |
|---|---|---|
| `channel_coro` | 2 producers x 2 items that register one by one, one by `try_send`, 1 slot, 2 coroutines, `Exact = FALSE` | safety under the weaker contract of the queue, and although the stream may end early; one slot makes every second send park |
| `channel_blocking` | `send` and `try_send` into 1 slot, a coroutine and a thread receive, `close()` at any moment | nothing accepted after `close()`, the end told at the end, no lost wake-up of the condition variable, everybody returns |
| `mutex_fifo` | 3 coroutines, 2 critical sections each | the refinement of `FifoLock`, no lost waiter, every request granted. Three: an owner and two waiters, whom a wrong reversal can reorder; twice: nodes are used again |
| `sched_failfast` | a source, a task that may throw and submits a dynamic one, a task whose combiner may throw and that depends on both; a user interrupt, the watchdog and the global timeout | a return with the right verdict whatever stops the call |
| `sched_continue` | two branches that may fail, a task below one and one below both, and a second call with a task of its own | counting, skipping in every order, everybody settles, late steps of the first call do not disturb the second |
| `exec_permits` | 1 permit, 3 workers, 5 jobs, 2 of which block, an observer, shutdown at any moment | permits exact, cap respected, blocked workers counted. With one permit every hand-off is contended |
| `exec_elastic` | 2 threads, 1 to 2 workers, a job that waits for the other one | grow, shrink, hand off and shut down; queued work runs as long as fewer jobs than threads wait |
| `prune` | every file of two chunks of up to three of five events, cut into slices in every way; about 300 queries, and all pairs of some 40 predicates | no chunk with a match is skipped, slices leave no trace in the statistics, subsumption is never claimed wrongly |
| `views` | 2 builders of one view, 2 readers with a question each, one of which it answers and one that it does not; a trace of one chunk that grows to two; one crash, failed write, failed scan or throwing consumer; parts of one row, a channel of one slot | answers and trusted views lack nothing but what a swallowed exception or an eviction took away, builders exclude each other, everybody returns or is parked at a full channel |
| `stream` | 2 workers, 3 units with 4 batches, one unit above the decoding budget, 2 cursors with budgets of 2 rows | rows complete and once, the budget exact, coverage honest, the scan and all cursors end |
| `stream_throw` | the same, safety only | *violation:* see below |
| `index` | 2 files with two changes in all, at the ends, in the middle or a touch; failed parses, writes and removals; every combination of `force_rebuild` and `require_bloom`, crashes at every step | no stale data behind a fresh entry, nothing forgotten without a reason, sums right |

Bounds. Items per sender, critical sections per coroutine, calls of
`get_progress()`, workers, jobs, faults (`MaxFaults`), changes of sources (`MaxChanges`), slots of the export channel (`Slots`),
rows of a chunk (`MaxRows`), chunks and batches are constants. They are enough for
the cases named in the table: one waiter overtaking another takes three
coroutines, a stale view two versions, a build cut short twice two crashes
(`index` has no bound on crashes and failures), stale data behind a fresh
entry one change in the middle and one forced rebuild, a parked producer a channel
that is full with one chunk to come (one slot and two chunks, where the code has up to 33 slots), a mixed dimension two values in two slices.
`Plenty` and `Wide` stand for 2^32 - 1 and 2^64 and exceed all sums and numbers in their runs.

`CHECK_DEADLOCK FALSE` appears where the system may stop: after a shutdown, when
all cursors have ended or gone, and in `channel_coro`, whose queue may hide an
item from a coroutine that then waits for ever, the last producer having left.

### Disagreements between the code and what it says

`stream_throw` expects a violation: the exception of a scan worker stays in a
future that nobody reads, and a cursor of which the code says that it surfaces
the producer's exception ends without it and without the rows. `PROJECT.json`
quotes the comments and the lines.

The properties of the passing runs stay clear of other things that the code does
and a reader may not expect; the hazards of `PROJECT.json` name them with their
lines.

- *Channel.* A blocking receiver releases a slot twice, and the queue outgrows
  its capacity. An open channel that never had a registered producer can tell a
  suspended receiver that it is closed, and a blocking receiver of one can sleep
  through the end; producers registered one by one can end the stream of the others. A
  `try_send` without a producer slot that `close()` overtakes calls
  `maybe_notify_terminal()` with `state_mutex_` held (`channel.h`:892, 907) and locks
  itself out (`TrySendReject`, `stuck`).
- *Scheduler.* Under CONTINUE the children of a task whose combiner throws stay
  pending, and the call may return before the last failed task's descendants are
  skipped and its progress is reported. FAIL_FAST goes on submitting after an
  error. `execute()` does not count as a reader of what it returns.
- *Pool.* `run_blocking` says that "parking the caller cannot starve the pool the work
  runs on" (`core/runtime.h`:93-97). It can, when as many jobs as there are threads wait for others: a
  hand-off while `get_progress()` or the monitor has `workers_mutex_`, or one that comes before the worker has
  counted itself as blocked (the sysmon being awake for another), starts no replacement, and nothing
  tries again. In place of the values in `exec_elastic.cfg`, `NumThreads = 1` and
  `MaxLive = 3` with `Peeks = 1` violate `EveryJobRuns` in the first way, and with
  `Jobs = {a, b, c}` and `Inner <- Chain` in the second;
  `exec_elastic` itself has one
  waiting job and two threads. A worker that is retired while it is
  blocked comes back without a permit.
- *Pruner and subsumption.* A negated test of a field that an event lacks holds of the event, but
  the pruner skips chunks by it, as it does when a negative number is compared with an unsigned dimension. Several value sets of one field are united where they should intersect.
- *Views.* A scan that fails in a build, a consumer that throws and a cancelled build end in a registered
  view that misses rows, and so does an append between a builder's choice of a directory and its manifest.
  A scan that fails in a read, or a view that is evicted after a
  reader has chosen it, ends in a short answer without an error. A failed write of a large build
  parks its producers for ever. After a build
  that was cut short, the next one's view can hold rows twice: parts that the
  second did not open again are still read.
- *Index.* A crash, a failed parse or a failed write leaves files that look indexed and have not all of their data until a call
  with `force_rebuild` or `require_bloom`. A file that changes past the samples of its hash, or
  between the reads of hash and mtime, keeps its old data under a fresh stamp when the directory is rebuilt in place, although
  callers are to "never see a changed source" (`trace/indexing/resolve_and_build.h`:50-51).

### Fairness

Weak fairness of each process's next step says that the operating system runs
runnable threads and the executor runs resumed coroutines; nobody has to call
`close()`, interrupt, migrate, submit, crash, append, narrow or abandon. In
`Executor` four steps have strong fairness: a free permit that comes back again
and again is had at last by one of those who come back with a job (`PermitWake`, `Acquire`), because a worker that finds
no work parks for at least a millisecond without one; a worker that stays
blocked is old enough at some look of the sysmon (`Handoff`), which looks every
100 microseconds; and the monitor that waits for `workers_mutex_` (`Grow`) has it in one of the
sysmon's pauses. Jobs end. Threads that call `get_progress()` release the
mutex. In `StreamScan` whoever has a cursor drains it or lets it go, which is the
contract of `Source::open_batch`: a cursor held without being read stops the
others by design. `IndexStore` claims no liveness.

## 5. The proofs

The theorems hold for every value of the constants under the named assumptions
of the modules (finite, disjoint sets of processes; capacities and numbers are
naturals; the task graph is any relation, sources and dynamic tasks have no
parents, calls share no task; finitely many files and cursors; a batch is finite
and no row is in two of them; a scan with units has a worker). Where a theorem
needs more of the constants, it says so in an `ASSUME` of its own; below is why,
and what the code does without it.

**ChannelProofs.** `TypeCorrect`, `Delivery` (`ExactlyOnce`), `NoStray`
(`ParkedIsListed`), `ClosedForGood` (`NoSendAfterClose`). The inductive
invariant is `TypeOK /\ Fresh /\ EmptyHanded /\ ListedOnce /\ ParkedIsListed /\
ExactlyOnce`: an item that was not sent is nowhere (`Fresh`), a consumer that is
looking for an item holds none (`EmptyHanded`), and a waiter is on its list once
(`ListedOnce`). Without `ListedOnce` a hand-off could leave a second entry of the
receiver behind, and with it a second item for the same coroutine.

`NoLostWakeUp` (`NobodyForgotten`), without hypotheses: for both contracts of the
queue, registered senders or not, bounded or not. A receiver that parks read an
empty queue before, and a sender parks on slots that are gone, so what has to be
shown is that the counters do not lie: `SlotsCover` (free slots, queued items
and items whose slot is on its way back make up at least the capacity; a
blocking receiver may return a slot twice, so "at least" is all there is) and
`PendingCount` (`pending_items_` is the number of items queued or about to be
counted out, so a channel with an item is not terminal). `CloserComes` covers
the senders that are parked when the channel is closed. Every step is one that
leaves the buffer alone, puts an item in, takes one out, counts one out, or frees
a slot (`BufferSteps`).

`EndOfStream` (`EndIsFinal`) needs `Orderly`: all senders have registered before
anybody runs, and a dequeue fails on an empty queue only. Then `num_producers_`
is the number of senders that have not released their slot (`PresentCount`),
nobody decides that the channel is over before that number is zero
(`WakersKnow`), and whoever has been told the end found no producer and no item
(`ToldAtTheEnd`). TLC shows that each part is needed: `EndIsFinal` is violated when
producers register one by one, when `try_dequeue` may fail beside an item, and
when a sender uses `try_send` without a slot.

**AsyncMutexProofs.** `TypeCorrect`, `Exclusive`, `Safe` (the asserts of the
code), `NoLostWaiter`, and `Refinement`: `AsyncMutex` implements `FifoLock`.
The invariant describes the shape of the two lists: the nodes pushed on the word
are a chain without repetition from the newest waiter to the oldest
(`StackShape`), the owner's list a chain from the oldest on (`ListShape`), the
half-done reversal splits one into the other (`ReverseShape`), and whoever is
suspended is on exactly one of them (`Waiting`). The abstract queue is the
owner's list followed by the reversed stack.

**SchedulerProofs.** `TypeCorrect`, `Dependencies` (`DependenciesRespected`) and
`Final` (`ResultIsFinal`). The core of the invariant is `CountedDown`:
`pendingParents[t]` is at least the number of parents that have not counted `t`
down, so whoever brings it to zero is the last, and by `Results` each of them
counted down after publishing a value. The rest says who may touch a child in
between: one worker at a time prepares it (`Prepared`), a task that is being
skipped or whose input failed is never submitted (`Skipping`, `Rejected`,
`Submitted`), which is what makes results final although the code tests and
then sets.

`LiveValues` (`ReadsLiveValues`) holds without
hypotheses: readers left are never fewer than the children that have yet to read
(`ReadersCover`), whatever is skipped. `PendingIsExact` (`PendingExact`) and
`NormalReturn` (`QuietOnReturn`): every step leaves the tasks in flight alone, adds
one, or takes one away (or there is a shutdown), and `pending_count_` moves with it; a
child that a worker has in hand belongs to nobody else (`Hands`), and between
calls nothing is in flight (`AtRest`). They ask for `Undisturbed`: one call, or no call
that can be ended early. Under FAIL_FAST a call returns at the first error with
tasks still in flight, and the next one resets `pending_count_` under them
(`scheduler.cpp`:117), after which it is exact no more.

`TrueOutcome` (`OutcomeIsTrue`), for one call: an exception is on its way to
`has_error_` or has got there (`Reported`), a task that all its parents have counted down is in
somebody's hands or submitted (`NotStranded`), and so a count of zero without an error
means that every task of the graph has a value: were there one without, take one
of them with no parent among them, which exists because the graph is acyclic. `Acyclic`
is what `Pipeline` checks (`pipeline.cpp`:166 and 303). `Rooted` says that the
parents of a task that the source reaches are reached by it too; that is not
checked, and a task with a parent elsewhere never runs.

**ExecutorProofs.** `PermitsAreExact` (`PermitsExact`), for pools of any size, any
jobs, and workers that come and go: a worker in a blocking region is either
marked as blocked and still counted as a holder, or its permit was handed off and
`holds` is reset when it comes back (`Flags`), so the CAS on `blk_state` decides
who returns the permit. `CapOfFixedPool` (`CapRespected`) and `BlockedIsExact`
(`BlockedExact`) are about pools of fixed size (`MinWorkers = NumThreads`): a
worker that is retired while it is blocked comes back without a permit
(`thread_pool_executor.cpp`:315). An elastic pool retires one worker at a time,
so `CapOfElasticPool` bounds the running jobs by one more than the cap.

**ViewStoreProofs.** `SingleFlight` (`OneBuilder`), for any number of builders,
readers and chunks, any faults, and appends at any moment. The lock alone does not
show it, because a reader removes a stale directory under its builder, lock file
and all. The invariant dates everything: a builder's directory bears the version
it was chosen at (`ChosenInTime`), a manifest is no older than its directory and
not from the future (`ManifestsInTime`), so that a directory that is stale lies
behind the trace, and a builder past the lock holds it or its directory is gone
and will not be chosen again (`HoldsOrGone`).

`TrustedViewIsWhole` (`RegisteredIsWhole`) and `AnswersAreRight`
(`AnswerIsRight`), for any faults and evictions. During a build every
selected chunk that it has not lost is still to be scanned, on its way to the consumer, or in one of
the parts that this build opened (`Packing`), of which only the last is open; the
manifest comes last (`ManifestAtEnd`), so a directory with a manifest and without a
builder is whole but for what its build has lost (`WholeBut`, `TrustedIsWhole`). Without failed
scans and throwing consumers nothing is lost (`Lossless`), so the view is
whole. And a directory that bears its own version
never changes but to disappear (`Steady`), which is what a reader relies on
between choosing a view and scanning it (`Readings`). The hypothesis of both is
that nobody appends while a build has its directory: `register_view` takes the
identity of the trace a second time (`mv_store.cpp`:367) and would seal the old rows
with it. `AnswersAreRight` also assumes that rows can be told apart (`Distinct`)
and that a view is said to subsume only what its predicate contains (`Sound`),
which is what `ClaimsAreTrue` below proves of the translated `query_subsumes`.

**IndexStoreProofs.** `TypeCorrect`, `NeverStale` (`FreshIsCurrent`),
`NothingForgotten` (`FreshIsWhole`), `SumsAreRight` (`RootIsSum`), for any number
of files, changes, failures and crashes. While the registered hash of a file is the present one, all that is
stored of it is the present content (`Kept`), because a file whose
hash has changed loses its contents when it is registered again, and nothing is
stored of a file that is not registered (`Claimed`). That is not enough: a build may
register a file after it has changed, under the hash and stamp it read before.
What is stored of a fresh file is current (`Current`) because hash and stamp that were read
belong together as long as the stamp is the present one (`Matching`). All three are about files that are not
`blind`, and fail for those. Outside of the parse
phase memory and disk agree and nothing is under way (`Closed`); a fresh file
that was not lost has its data or is still to be parsed or written (`Whole`); and
no step between two builds disturbs the sums (`Summed`).

**StreamScanProofs.** `HonestCoverage` (`WholeIsRead`), `NoRowTwice`
(`RowsArriveOnce`), `EveryRowArrives` (`CleanScanHasAllRows`) and `NoPermitLost`
(`BudgetIsExact`), for any number of workers, units, folds and cursors. For the
first, a worker at a batch of its unit has put every earlier batch through all
folds (`AtBatch`), so the end of the unit means all of it (`CoveredIsRead`); a
cancelled or failed worker never gets there. For the second, no two workers are
at the same unit (`Units1`), a cursor has nothing yet of a batch that has still to
come by it (`NewRows`), the frame is the only thing its cursor gets and comes when
all workers are gone (`FrameIsLast`), and slicing a morsel divides it (`Apart`). For
the third, until a worker fails, each row of a unit that was not ruled out and
has gone by a cursor is in its channel, its slices, its hands or its answers
(`HasRows`); a worker is done when no unit is left (`DoneIsAll`), and a cursor ends
when all is drained (`EndIsDrained`).

`NoPermitLost` assumes that no batch is larger than the budget (`BatchesFit`): the
semaphore clamps what a larger morsel takes but not what it gives back
(`core/coro/async_semaphore.h`:36), so that a budget grows with one. Its invariant adds to the equation that whoever waits at a budget is a
worker with a morsel for that cursor, with what that morsel needs, and waits once (`InLine`), and
that the frame never takes a permit (`FrameIsFree`). The equation adds up over the
workers and the channel, and the library's sum is a recursive function: the lemmas about it
(`SumsExist`, `SumParts`, `SumRenamed`, `SumUnion`) are proved from the definition,
by a minimal counterexample in place of an induction rule (`NoneBad`).

**QueryProofs.** Four theorems, for any events, fields and predicates, the predicates being finite
trees (`FiniteTrees`: a height falls from a node to its operands). `Meaning`, `Flatten`, `Prune` and
the others are recursive functions over a set of nodes; that they satisfy their
equations is proved from well-founded recursion (`Recursion`, `TreeRecursion`),
and what holds of every predicate by the absence of a least bad one (`NoBadQuery`).

`ClaimsAreTrue`: if `query_subsumes` says yes, every event of the query satisfies the
predicate of the view, also an event without some field or with a value of another type in it.
What `Flatten` gathers of a conjunction is a necessary condition on every field, and of the view's a
sufficient one. Sufficient it is only with one value set per field (`OneSetPerField`,
part of `Claims`): several are united where they should intersect (`subsumption.cpp`:93).
`NoEventLost` is property `SubsumptionIsSound` of the trace that is being indexed.

`SlicesDoNotShow` (`SlicingIsInvisible`), without hypotheses. The statistics of the open slice,
of what was merged before it, and of every sealed chunk are those of sets of events, of which the
first two make up the rows of the chunk (`Sliced`). A merge describes the union
(`MergedIs`): types join like sets of kinds (`TypesJoin`), ranges like the sets they bound
(`RangeOfUnion`), and a dimension that was mixed stays so. A chunk is sealed when the
slice has the statistics of nothing, which are those of no event only (`NothingFound`).

`NoMatchLost` (`PrunerKeepsMatches`). By `Sliced` the value that an event of a chunk has is in
the dictionary, the filter and the range of its dimension as far as there are any (`Known`), so a
test that the event passes keeps the chunk, and a chunk of which every event is
said to pass a test has no other events; both together by the structure of
the query (`PruneIsRight`), as a negation turns the one into the other. The hypotheses are
what the code needs, and what the run keeps to (`QueriesAreFit`):

- a number that an unsigned dimension is compared with by order is in its range (`LiteralsFit`):
  `std::stoull` wraps a negative one (`chunk_pruner_utility.cpp`:207), and `dur > -1` would skip every chunk;
- `not in` lists values of the dimension's type (`ListsFit`): the dictionary has texts, so a
  chunk in which all names are the text `1` is skipped by `name not in (1)`;
- below a negation are only tests of fields that every event has, with values of their type
  (`NegationsAreFirm`): the statistics do not say whether an event lacks the field.

Only model-checked: all liveness (`EverybodyReturns` of two modules,
`LockIsGranted`, `ExecuteReturns`, `EverybodySettles`, `EveryJobRuns`,
`ShutdownReturns`, `ScanReturns`), which is out of the prover's reach under
fairness; and `EndedHasAllRows`, which the code violates.

## 6. Not modelled, and why

Memory orders weaker than sequential consistency: the models interleave
accesses. Allocation failure. The contents of items, results and exceptions.
Logging and statistics. The vendored queue and RocksDB, of which only the
contract is used. What each module leaves out of its component is in section 3,
the components that are left out in section 1.2. The larger part of the
repository by lines is the dataframe engine, its bindings and the record
formats: transformations of data without a protocol, whose model would be as
long as the program.
