# A specification of the concurrent and re-entrant core of `base`

The repository is a trimmed copy of Chromium's `base` library (2013): a toolbox
of synchronisation primitives, thread helpers, process-wide tables and
notification lists, with strings, files, JSON and system adapters around them,
and without the message loop and task runners. `src/CMakeLists.txt` names what is
built. This directory holds TLA+ models of the parts whose correctness depends
on the order of steps, the TLC configurations that check them, and TLAPS proofs.

To check a model: `tlc -config WaitableEvent.cfg MCWaitableEvent`.
To check a proof: `tlapm WaitableEvent_proofs.tla`.

## 1. Inventory

Paths are relative to `src/base`.

| component | state | operations | talks to | hard behaviour | what makes it correct |
|---|---|---|---|---|---|
| sequence lock, `synchronization/one_writer_seqlock.*` | `sequence_` | ReadBegin, ReadRetry, WriteBegin, WriteEnd | the data of its clients | readers run during writes; the counter wraps | an accepted copy is one whole update; readers get through |
| waitable event, `synchronization/waitable_event_posix.cc` | per event `signaled_`, `waiters_`, `lock_`; per wait a `SyncWaiter` | Signal, Reset, IsSignaled, TimedWait, WaitMany | condition variables, the pool | several locks at once, time-outs racing signals, waiters on the stack | no signal lost or spent twice, no dead waiter fired, no deadlock |
| condition variable, `synchronization/condition_variable_posix.cc` | pthread's | Wait, TimedWait, Broadcast | waitable event | spurious wakeups, absolute deadlines | callers' loops are right |
| condition variable on Windows XP, `synchronization/condition_variable_win.cc` | `waiting_list_`, `recycling_list_` and its size, `allocation_counter_`, `run_state_` | TimedWait, Signal, Broadcast, destructor | kernel events | events picked under a lock and set outside it; recycling; hasty destruction | every waiter reachable, pool conserved, spurious wakeups only as documented |
| delegate pool, `threading/simple_thread.cc` | `delegates_`, `dry_`, `threads_` | Start, AddWork, JoinAll, the worker loop | waitable event, lock | a race for the last delegate; quitting through the queue | each delegate runs once; JoinAll waits for all; a restart is clean |
| path service, `path_service.cc`, `base_paths*.cc` | `cache`, `overrides`, `providers`, `cache_disabled` | Get, Override, RemoveOverride, RegisterProvider, DisableCache | providers that call Get again | the lock is dropped while providers run | cache and answers agree with the overrides |
| observer list, `observer_list.h` | `observers_`, `notify_depth_`, `type_`; per loop an `Iterator` | AddObserver, RemoveObserver, Clear, FOR_EACH_OBSERVER, destruction | observers that call back | change, nesting and destruction during a notification | each loop calls whom it owes |
| callback list, `callback_list.h` | `callbacks_`, `active_iterator_count_`; per Notify an `Iterator` | Add, Subscription's destructor, Notify | callbacks that call back | the same, over a linked list | the same, and no iterator on an erased node |
| lazy instances and singletons, `lazy_instance.*`, `memory/singleton.*`, `at_exit.cc` | the atomic word of an instance; the manager's `stack_` and `lock_` | Pointer, get, OnExit, RegisterCallback, ProcessCallbacksNow | constructors and destructors of clients | racing creators, nested creation, destruction order, stray calls after the exit | one finished object for all; users destroyed before what they use; nothing revived |
| weak pointers and reference counts, `memory/weak_ptr.*`, `memory/ref_counted.*` | `ref_count_`, `is_valid_`, the owner's `flag_` | GetWeakPtr, copy, reset, invalidate, AddRef, Release | everything that posts a task or counts references | the last two references released at once; flags replaced and their memory reused | one deletion; valid exactly while the owner stands by it |
| waitable event watcher, `synchronization/waitable_event_watcher_posix.cc` | `cancel_flag_`, `waiter_`, `kernel_`, the loop's observers | StartWatching, StopWatching, the destructor, the posted callback | waitable event; the message loop (external) | cancel against signal, reused addresses, the end of the loop | one callback, none after StopWatching |
| worker pool, `threading/worker_pool_posix.*` | `pending_tasks_`, `num_idle_threads_`, `terminated_` | PostTask, Terminate, WaitForTask | condition variable, threads of the platform | signals and time-outs against posts; threads that cannot be made | every task gets a thread, and one only |
| preference store, `prefs/json_pref_store.cc`, `prefs/pref_notifier_impl.cc` | `prefs_`, `initialized_`, `read_only_`, the pending write, the file | ReadPrefs(Async), SetValue, CommitPendingWrite, destructor | its task runner, the file writer (external), PrefValueStore | reading and writing in the order of the runner; errors; reopening | nothing lost, a read-only store writes nothing new, observers told once at most |
| preference services, `prefs/pref_service.cc`, `pref_value_store.cc`, `overlay_user_pref_store.cc`, `pref_member.cc` | the layers of stores, the members' copies | Set, Replace, Report, Load, MoveToThread, Notify | observers that change preferences, members on other threads | nested notifications, an overlay over another service's store | a member that was told knows the value |
| trace log, `debug/trace_event_impl.cc` | `logged_events_`, local buffers, `enable_count_`, the flush under way | SetEnabled, SetDisabled, AddTraceEvent, Flush, OnFlushTimeout | message loops (external), observers | threads that end, hang or answer late; flags read without the lock | nothing twice, a flush complete and over |
| once, lock ownership, thread-local storage (Windows), thread names, tracked objects, `CancelableCallback`, `BarrierClosure` | slots, maps, retired data | Set, OnThreadExit, RegisterThread, Cancel | thread exit | destructors that store values; reuse of handles | *see section 6* |
| file path watcher, `files/file_path_watcher_linux.cc` | watches along a path | Watch, OnFilePathChanged | the kernel's queue | the tree changes while it is watched | *see section 6* |
| containers, JSON, values, strings, hashes, files, logging, processes, Windows/Mac/X11/NIX adapters, third-party code | | | | sequential, or calls of the operating system | not modelled |

The sources of prefs, the trace log, the worker pool, the watchers and the message loop they
post to are not among the files `src/CMakeLists.txt` builds; all but the loop are in the
tree, and are modelled from there.

`PROJECT.json` lists the same components with the status and the reason of each,
and the hazards of the code at the lines where they bite.

How the parts use each other: a delegate pool waits on a waitable event and
guards its queue with a lock; a waitable event is built from a lock per event
and a lock with a condition variable per waiter; the path service keeps its
data in a leaky lazy instance and calls providers that call it again; lazy
instances and singletons register with the at-exit manager, whose tasks run destructors
that may ask for lazy instances; both notification lists call clients that call the
list again. Weak pointers share a reference-counted flag with their factory. A
watcher puts a waiter of its own into a waitable event, to be fired on any thread, and
is called on the loop it watches from. A preference service listens to its
stores, and members listen to it; the trace log keeps a buffer on each thread
and asks the threads' loops for them.

## 2. The modules

| module | models | composed with |
|---|---|---|
| `OneWriterSeqLock` | one writer and any number of readers of the sequence lock | |
| `EventSpec` | what a waitable event promises: abstract, no locks, no lists | implemented by `WaitableEvent` |
| `WaitableEvent` | `waitable_event_posix.cc` with `SyncWaiter` and the pthread condition variable | refines `EventSpec` |
| `ThreadPool` | `SimpleThread` and `DelegateSimpleThreadPool` | `dry_` is an event as `EventSpec` promises |
| `WinXPCondVar` | the event pool behind a condition variable on Windows XP | |
| `PathService` | the service and the chains of its providers | |
| `Filters` | a sequence without some of its elements, by a recursive function | used by the lists and the watchers |
| `NotificationList` | what an observer or callback list promises to each notification | implemented by the next two |
| `ObserverList` | `ObserverListBase`, its iterator and `FOR_EACH_OBSERVER` | refines `NotificationList` |
| `CallbackList` | `CallbackListBase`, `Subscription` and `Notify` | refines `NotificationList` |
| `LazyInstance` | `LazyInstance` and `Singleton` over `AtExitManager` | |
| `WeakPtr` | `WeakReferenceOwner`, `WeakPtr`, `scoped_refptr`, `RefCountedThreadSafe` | |
| `WaitableEventWatcher` | the watcher and its `AsyncWaiter`s | events as in `WaitableEvent`, on a loop |
| `WorkerPool` | `PosixDynamicThreadPool` and its `WorkerThread`s | |
| `JsonPrefStore` | the store, its file, and the initialization of `PrefValueStore` and `PrefNotifierImpl` | |
| `PrefService` | two services, their stores, notifications and members | the stores' own persistence is `JsonPrefStore` |
| `TraceLog` | the log, its thread-local buffers and its flush | |
| `*_proofs` | theorems about the module of the same name | extend it |

`MC*` modules add symmetry sets and constant definitions for TLC. Five of them also
put small subsystems that have nothing in common into one run: a variable `subject`,
chosen in the initial state and never changed, says which of them a behaviour is
about, and the others stay in one initial state. This adds the state spaces and does
not multiply them; where the run has fairness, each conjunct is that of the
subject's own specification.

Variables keep the names of the members they stand for (`signaled_`,
`notify_depth_`, `private_instance_`); `pc`-like variables say which statement a
thread executes next; variables marked "history" are read by properties only.

**The grain of a step.** Where code runs under a lock that it releases at the
end, the critical section is one action. A lock that stays held across a point
where other threads matter is a variable: the event locks and the `SyncWaiter`
locks of `WaitableEvent`, `user_lock_` of `WinXPCondVar`, the manager's `lock_` of
`LazyInstance`. Every atomic load, compare-and-swap and store in the sequence
lock and the lazy instance is its own action. Memory is sequentially consistent:
the barriers of the code are taken to do what their comments say.

**`OneWriterSeqLock`.** `WriteBegin` and `WriteEnd` increment the counter, modulo
`Modulus` (2^32 in the code); the writer stores, and each reader loads, the two words
of the record one at a time. A reader is the loop `ReadBegin`, copy, `ReadRetry`.

**`WaitableEvent`.** `Signal`, `Reset` and `IsSignaled` are the calls of the same
names. `Signal` on an unset event keeps the event lock and goes through the wait-list:
`Fire` and `PopFront` are the loops of `SignalAll` and `SignalOne`, `Accept` is
`SyncWaiter::Fire` on a waiter that takes the signal, `SignalEnd` what remains.
`TimedWait` takes a set event at once or enqueues; `CvWait`, `CvReturn`,
`Wake`, `SpuriousWake` and `Expire` are the condition variable and the clock;
`StopWaiting` disables the waiter, and `Dequeue` takes it off the list. `WaitMany`
locks its events in the order of their addresses (`EnqueueMany`, the unwound
recursion of the code), releases them one by one, sleeps, and dequeues from all but
the one that fired. Events are numbers, which are also their addresses. `EventSpec` is the
same without locks and lists: who is blocked, on which events and with which deadline
(`left`). A blocked thread leaves when one of its events releases it or when its deadline
has passed, and for no other reason; the mutant that gives up at once breaks that.

**`ThreadPool`.** The owner starts threads one by one (`CreateThread`,
`StartReturns`), adds work at any time, joins (`JoinAll` queues the NULLs,
`JoinThread` per worker) and may start again. A worker is `ThreadMain`, then
`WaitDry`, `Take` and `RunWork` until it takes a NULL.

**`WinXPCondVar`.** `TimedWait` obtains an event, `ReleaseAndWait` drops the user's
lock, `Wake` or `TimeOut` ends the wait, `Recycle` returns the event,
`Reacquire` takes the user's lock. `Signal` and `Broadcast` pick events; `SetEvent`
sets one of those picked. `Shutdown`, `LastBroadcast` and `Destroy` are the
destructor. The lists of class `Event` are sequences.

**`PathService`.** A thread has a stack of activations of `Get`, since a provider
may ask for another key. Each activation looks in the cache and the overrides,
takes the list of providers and drops the lock, asks the system or the parent key,
and stores. A path is the key where the chain ended with what was found there, so
a derived path is stale exactly when the end of its chain is no longer what the
overrides decide (`Current`, the reference definition without a cache).
`Lenient` keys ignore the failure of the nested call, as DIR_EXE does.
`base_paths_posix.cc` is the provider `path_service.cc` refers to on Linux, though
`src/CMakeLists.txt` does not list it.

**`ObserverList`, `CallbackList`.** One thread, with a stack of iterators, one per
notification under way. While a client is being called (`InClient`) it may do
anything to the list, including another notification. `GetNext` is the iterator's
step, `LoopEnds` and `NotifyEnds` its destructor with `Compact` when it is the last.
`NotificationList` says of each notification which members it still owes a call.
Its `policy` is the difference between the lists: `"all"` takes new members
in, `"existing"` does not, `"pending"` only while somebody is still owed.

**`LazyInstance`.** Each thread has a stack of activations of `Pointer`, nested
through constructors, and at exit through destructors. `Load`, `Cas`, `Spin`, `New`,
`Publish`, `RegisterCallback` are the statements of `Pointer`, `NeedsLazyInstance` and
`CompleteLazyInstance`; `ProcessCallbacksNow`, `RunTask` and `OnExit` the exit,
which begins when the other threads are at rest ("this should be called single
threaded"). Instances in `Static` are singletons with
`StaticMemorySingletonTraits`: once destroyed they are in `dead_`, and `Refuses` says
that `New` gives the stray caller nothing. Threads in `Stray` may call after the exit.

**`WeakPtr`.** `ptr_` is every `scoped_refptr` to a flag: those in weak pointers, in
the owner, and the temporary `old_ptr` in `operator=`, which each thread has one of. `Store` is the
assignment up to the increment of the new flag; `Release` the atomic decrement
that follows, and `Delete` the deletion by whoever got to zero. `GetRef` (with
`NewFlag` when `HasRefs` says no) and then `WeakReference` are `GetWeakPtr`; in between other threads
drop pointers. `Invalidate` is also the owner's destructor. The memory of deleted
flags is used again. `fresh` is history: handed out since the last invalidation.

**`WaitableEventWatcher`.** Watches are numbered; `cancel_flag_` is the `Flag` of the
watcher's last watch, and `value` those flags that were set. `Signal` fires the
`AsyncWaiter`s of an event, which posts `AsyncCallbackHelper` to the loop and deletes
itself; `Cancel` is what `StopWatching` does to a watch that may be anywhere on this way.
The loop runs tasks in order (`RunTask`), or ends: `CloseLoop`, then
`WillDestroyCurrentMessageLoop` per watcher, then `LoopGone`.

**`WorkerPool`.** A task and the thread created for it have the same number. `AddTask`
compares the idle threads with the queue and signals or creates; `WaitForTask` goes up to
`TimedWait`, `TimeOut` is any return of it but by a signal, `StopWaiting` is the rest of the
function. `Terminate` sets the flag, `WakeAll` is the broadcast after the lock is released.

**`JsonPrefStore`.** A file is an error or a value per key. The runner's queue holds the
posted reading (`ReadFileAndReport`) and writings; `report` is what
`ReportOnOriginThread` brings back. `SetValue` schedules a writing, `Timer` serializes and posts it,
`Close` is the destructor with `CommitPendingWrite`. Then the store may be opened again:
with `ReadPrefsAsync` at once, and the reading is queued behind the writings of the store
before, which is why the values are found again (the mutant that does not keep the order
loses them); with `ReadPrefs`, which reads on the calling thread and waits for nobody, only
once the queue is empty. That is so in the next process, since these tasks block the
shutdown (`BLOCK_SHUTDOWN`). The same process could read the file as it was before a
writing that is still queued, and this is not modelled.
`SerializeData` prunes empty values except those marked when their default was
registered.

**`PrefService`.** `Layers` are the stores by falling priority. A change of a store calls
its observers: `calls` is the stack of notifications under way, and an observer may
change a preference in the midst of one, which puts another on top. `LetsThrough` is the filter of the overlay. A
member on another thread gets its values through `posted`. `silent` remembers changes that the
code makes without notifying.

**`TraceLog`.** One category. A thread reads `enabled` (`BeginEvent`), makes a local
buffer if it has a loop, looks whether all is full, and adds. A flush posts to every loop
that has a buffer (`BeginFlush`), each answers (`DeleteInFlush`), the last one
posts `FinishFlush`, and `OnFlushTimeout` may come at any time. `NotLast` and `PostFinish`
are the two ends of an answer, outside the section that deleted the buffer. A loop
may end (`CloseLoop`) at any time between tasks.

## 3. The runs

| run | bounds | what it shows |
|---|---|---|
| `lock_free` | sequence lock: 2 readers, counter modulo 4, 3 updates; lazy instances: 3 threads, A uses B, B uses S, S uses C, C leaky, S in static memory | accepted copies are whole; one finished object; destruction order; reads, calls and the exit end |
| `lazy_instance_once` | as above, 2 threads | *violation*, see below |
| `waitable_event` | waiting: 3 threads, an auto-reset and a manual-reset event, 4 calls, 1 spurious wakeup; watching: 2 watchers, 2 addresses, 3 watches | `SetEventHasNoWaiter`, `FireReachesLiveWaiter`, the refinement of `EventSpec` with its deadlines; watches are paired with waiters and silent once stopped |
| `waitable_event_live` | 2 threads, 2 auto-reset events, 4 calls | Signal and waits return; `WaitMany` never deadlocks |
| `thread_pool` | delegate pool: 3 workers, 4 delegates, 2 starts; worker pool: 4 tasks, 1 thread that cannot be made | nobody sleeps on work; each piece runs once; JoinAll ends and has waited; tasks run, and terminated threads exit |
| `thread_pool_late_work` | 2 workers, 4 delegates | *violation* |
| `win_xp_cond_var` | 3 threads, 2 of which time out, 4 waits, 2 signals | pool conserved, waiters reachable, destruction wakes all |
| `settings` | paths: 2 threads, a chain of 3 keys, 2 override values, 3 calls, 2 changes; file: 2 keys, one marked, queue of 2; preferences: 1 key, 2 values, 2 members, 3 changes, 2 nested notifications | cache and answers are current; a file is found as it was left, with its writings still queued too; a read-only store writes nothing new; members know what they were told |
| `path_service_overridden` | as above | *violation* |
| `callbacks` | pointers: 3 threads, 4 weak pointers, 3 flags; observers: 3, 5 slots, 3 nested loops; subscriptions: 4 nodes, 3 nested notifications | counts, validity; refinement of `NotificationList`; no iterator left on an erased entry |
| `trace_log` | 2 threads with a loop, 1 without, 2 events, buffers of 2, 2 flushes, 2 times enabled | nothing twice, flushes complete, flushes end |
| `trace_log_collected` | as above | *violation* |

**Why the bounds are enough.** The counter of the sequence lock wraps within the
run, with fewer and with more updates than half a cycle during a read. Three
threads are the least that let one signal while another times out and a third
waits; with four calls a thread re-enters a wait after one that timed out, and
`WaitMany` meets both a set event and a concurrent signal. Three workers give two
losers in the race for the last delegate; a second start shows what the first
left behind. On Windows XP three threads are needed for one event to be picked,
timed out and handed on while a third thread still has it to set. A chain of three
keys has a cached entry that depends on another one, which depends on a
third. Nesting three deep has a loop that is neither the first nor the last. With
the instances A, B, S and C a constructor finds an instance ready, being
created, missing or dead. Three flags are one that is being deleted, one whose memory is used
again and the owner's present one; three threads, two that race for the last
reference while the owner asks. Two watchers and two addresses let the waiter of one
watch get the address another's had. With four tasks a worker pool has two idle threads, one
of which is signalled or timed out, when two more tasks come. Two keys tell an empty value
that is pruned from a marked one, and a queue of two has an old writing before the last
one. Two members are one on each service; two flushes let a late answer meet the
next one.

**Where a run stops.** `CHECK_DEADLOCK FALSE` is set where the calls of a behaviour
are counted (`MaxCalls`, `MaxWaits`, `MaxWork`, `MaxTasks`, `MaxChanges`, `MaxFlushes`) or the program really
ends (destroyed list, finished exit): no call is left then. A thread that is stuck
*before* that shows in the liveness properties, not as a deadlock of the model. A
behaviour of the sequence lock has its end when the last update and all reads are over.

**Fairness.** Weak fairness per thread, on the steps of a call it has begun: the
scheduler runs every runnable thread. Nobody is obliged to call anything.
`WaitableEvent` adds weak fairness of `Expire`: a finite deadline passes. No
fairness of locks (strong fairness) is assumed: the runs are finite in calls, so
a free lock that is asked for stays free in the end. `OneWriterSeqLock` needs the
writer to go on, and to stop updating, which `MaxWrites` provides; with a writer
that never pauses readers may retry for ever, as the header says ("low
contention"). `ThreadPool` assumes that the `Run` of a delegate returns.
`LazyInstance` assumes that constructors return and, in the run, that `Uses` has
no cycle: a constructor that asks for its own instance spins for ever in the code.
`WorkerPool` assumes that tasks return and that `Terminate` gets to its broadcast; the ten
minutes after which an idle thread leaves need never pass, so that a lost signal is not
made good by a time-out. `TraceLog` assumes that the owner's loop runs: the steps of its thread,
its tasks, and the timer, which is a strong fairness because the loop is busy with
other tasks now and then and comes back to it. The other threads may hang or end, which
is what the time-out is for.

**Mutants.** Each property of a passing run has a plausible bug in the code that
breaks it (a dropped `Disable`, a missing `Reset`, an erased node instead of a
blanked one, the destructor registered at the bottom...), defined before the
operator it replaces and listed in `PROJECT.json`.

## 4. Disagreements found

Each is a run that is expected to end in a violation.

1. **`AddWork` during `JoinAll`** (`thread_pool_late_work`). The delegate lands behind
   the NULLs and none of these workers runs it; `DCHECK(delegates_.empty())`
   (`simple_thread.cc:117`) fails. The header says "It is safe to AddWork() any time,
   before or after Start()."
2. **`Override` during `Get`** (`path_service_overridden`). `Get` computes without the
   lock and stores afterwards; an `Override` in between clears the cache before the
   stale value is stored, and since the cache is looked up first the override is
   never served. `CacheIsCurrent` and `AnswerIsCurrent` hold with the exception of
   such overtaken calls, which `stale` and `overtaken` record.
3. **Publication before registration** (`lazy_instance_once`). `CompleteLazyInstance`
   stores the pointer before it registers the destructor. A constructor on another
   thread that obtains the instance in between registers first; at exit the
   instance goes before its user, whose destructor creates it again, and
   registers it under the lock its own thread holds. With the proviso
   `unregistered = FALSE` construction happens once and in order.

4. **A flush that is finished twice** (`trace_log_collected`). `FinishFlush` asks only whether
   `flush_count_` is still its own. After a time-out with a `FinishFlush` already posted, or
   when two threads each found `thread_message_loops_` empty and posted one, it runs again:
   it takes the main buffer, with all that was recorded since, and finds the
   callback gone. The header says "Flush all collected events to the given output
   callback."

Smaller ones, met while modelling, that have no run of their own:

* `AddWork(delegate, 0)`: `simple_thread.cc:125` signals `dry_` although nothing was
  pushed, and a worker takes the front of an empty queue. The header says of
  `dry_` "Not signaled when there is no work to do." A 0 in `Repeats` makes TLC find
  `DryTellsWork`, and with it `NobodySleepsOnWork`, violated.
* A callback added by the last callback of a list is not run in the same `Notify`,
  although `callback_list_unittest.cc:253` says that a newly added one "should be
  run on the current iteration" (its test adds from the first of two). This is
  why `CallbackList` implements `NotificationList` with the policy `"pending"` and not
  `"all"`.
* `worker_pool_posix.h:55` says that `Terminate` "Stops handing out tasks to worker threads".
  `WaitForTask` looks at `terminated_` before it waits and not after: a thread that was idle
  and woken, by a post or by the broadcast itself, takes a task that is still queued.
  Busy threads take no more, so what is run depends on who was idle.
* An idle thread of that pool that could not be replaced: `AddTask` ignores the result of
  `CreateNonJoinable`, and the task waits until another is posted or a thread returns.
* `SetEnabled` or `SetDisabled` of the trace log returns early while another
  thread dispatches to its observers. A `SetDisabled` refused like this leaves tracing on;
  and what an observer is told "at this point" may no longer be so when it runs.
* The time-out of a flush logs that the remaining events "will be discarded"
  (`trace_event_impl.cc:1442`); a late thread's events go to the main buffer and come out with
  the next flush.
* A preference that changes without notification (an asynchronous reading,
  `SetValueSilently`, `UpdateCommandLinePrefStore`) leaves its `PrefMember`s behind, though
  `pref_member.h:17` says a member "should stay in sync". A value set before an asynchronous
  reading has ended is lost with the dictionary it was set in. Both are excused in the
  properties, by `silent` and `early`.
* Such an early value also schedules a write. If the file then turns out to be unreadable, the
  store is read-only and "changes are not actually persisted to disk"
  (`persistent_pref_store.h`), but the timer is still set: it writes the store over the file,
  with every change made up to then. `ReadOnlyWritesNothingNew` says how far
  this goes: nothing but what was owed when the reading ended is ever written, and the
  destructor does not commit it.
* An init observer that is added after an initialization that failed is never told, since
  the status remains `INITIALIZATION_STATUS_WAITING`; `pref_service.h:252` says "We run the
  callback once, when initialization completes." `InitObserversToldOnce` speaks of the one that was there
  before: told once at most, the truth, and not left waiting once all is known.

## 5. The proofs

All constants are arbitrary there, under the named assumption of each module.

**`OneWriterSeqLock_proofs`**: any number of readers, any even modulus, any
number of updates. `AcceptedCopyIsWhole` is not inductive: it says nothing of a
reader that has copied one word. The invariant `IInv` adds, for the writer, that
`sequence_` is the number of its increments (`Total`) modulo `Modulus` and which words
already carry the new generation (`WriterInv`); and, for each reader, that
the version it holds was read between two updates and that the words it has copied are
of the generation of that moment unless another update has begun since
(`ReaderInv`). That `ReadRetry` then notices the update is `RetryDetects`: two counts
less than a full turn apart differ modulo `Modulus` (`ModDiffer`). Theorems:
`Invariance`, `TypeCorrect`, `WholeCopies`.

**`OneWriterSeqLock_proofs`, the lazy instances**: any threads, any relation of who
uses whom, any of the instances leaky or static. `UsedIsBuilt` is about the
instance a thread has its hands on, and to preserve it one has to know what each activation
on each stack relies on. `IInv`, stated in `LazyInstance`, says that one activation at most is
between the won `Cas` and the `Publish` of an instance (`OneCreator`); that
`private_instance_` tells whether there is an object (`WordsTell`); that the callbacks of the
exit manager are in an order in which what an instance uses is destroyed after it
(`InOrder`); and, of every activation, which instances it and those below it have
finished with (`EveryoneKnows`). Theorems: `LazyInvariance`, `UsedInstancesAreBuilt`,
`ConstructorsAreCalledOnce`, and `TypesAreCorrect` for both subjects of the run.

**`WaitableEvent_proofs`**: any number of threads and events, any number of
calls. The invariant `IInv` is stated in `WaitableEvent`, so that TLC can check it
too. Neither `SetEventHasNoWaiter` nor `FireReachesLiveWaiter` is inductive. `IInv`
adds: a lock variable names exactly the thread whose step holds it
(`LocksMatch`); every entry of a wait-list belongs to a thread in a wait that has
yet to leave that list, or has just been passed by the signaller that will
drop it (`EntriesLive`); no entry occurs twice (`EntriesDistinct`); an event
locked across steps is unset (`LockedAreUnset`); the locals of each step fit
together (`FramesMatch`). The proof has one lemma per action (`FireKeeps`,
`DequeueKeeps`, ...) with a step per conjunct the action can disturb, over lemmas on
lists (`RemoveFirstEntry`, `AppendDistinct`); `LocksMatch` gives the mutual exclusion
between a signaller and those who dequeue. Theorems: `Invariance`,
`TypeCorrect`, `NobodySleepsOnASetEvent`, `FiresOnlyLiveWaiters`.

*The refinement of `EventSpec`* (`Implements`: `Spec => AbstractSpec`) has one lemma per
action that names the step of the abstract event it is, or that it is none: a `Signal` that
finds a waiter is the abstract one when the waiter accepts, a `Dequeue` that
comes too late is none. It needs more than `IInv`, which says that who is in a list is in a wait, but
not the converse. `WaitInv` is that converse: who waits and was not fired is in the list
of each of its events (`WaitersListed`), unless a signaller has just passed the entry
(`PassedAreFired`), and who was fired was fired by one of the events of its own wait
(`FiredByItsEvent`); and a thread in `WaitMany` has no deadline (`DeadlinesMatch`), so that
`Expire` is the abstract one for who is blocked and nothing for who is not (`ExpireFollows`). `WaitersAreFound` states it of every behaviour.

*The watchers* (same module): any watchers, events and addresses, any number of watches.
`WatchersArePaired` counts places in lists and tasks, which says too little of where they
are. `IInv` of `WaitableEventWatcher` says instead that a waiter in use is in one list and once
(`ListedOnce`), that it belongs to the running watch of a watcher the loop will tell of its end
(`WaitersAreWatched`), that a `Flag` is new at each start, held by one watcher, and set
before its callback runs (`FlagsAreNew`), that a task is queued once, when its waiter is gone, and is silenced
if its watch was stopped (`TasksAreOnce`), and that a watch that is neither stopped nor over
is in a list or in the queue (`NothingIsLost`). Each step is described by the sets it moves
waiters and tasks between (`SignalTakes`, `StartWatchingKeeps`, `StopWatchingEnds`); `Fire` leaves out no
task, because a listed waiter's flag is not set (`FilterAll`), and the count of at most one
follows at the end (`WatchersPaired`). Theorems: `WatchingInvariance`, `WatchersStayPaired`,
`StoppedWatchesAreSilent`, and `TypesAreCorrect` for both subjects of the run, which includes `LocksMatch`.

**`WeakPtr_proofs`**: any finite number of threads and pointers, any flags. Neither
`CountsAreReferences` nor `ValidMeansFresh` is inductive alone. `IInv`, stated in `WeakPtr`,
adds that a thread's step and its temporary agree (`StepsMatch`: it has an `old_ptr` exactly between
assignment and release), that the owner's flag is valid while it has one
(`OwnerFlagIsValid`), and that the fresh pointers are those that share it
(`FreshOnesShare`): a pointer with another flag is stale, and that flag was invalidated before
the owner let go of it. `StoreCounts` carries the counting through an assignment; each action has a lemma of its own. Theorems: `Invariance`,
`CountsAreRight`, `PointersAreValidWhileFresh`.

*The lists* (same module, which extends `MCCallbacks`): any observers and callbacks, vectors of
any size, any depth of nested notifications. Both lists, and the abstract one, filter sequences, with
`Filter` of `Filters`, a recursive function. Its equation (`FilterEquations`) is proved as described below,
and then, by adding one element after the other (`ByAppending`), what the lists need of it: which elements it
keeps, each once (`FilterElements`, `FilterOnce`), how it splits, composes and concatenates
(`FilterSplit`, `FilterTwice`, `FilterConcat`), what its first element is (`FilterFirst`). The
invariants add that nobody is in a list twice (`NobodyTwice`, `NodesOnce`), that the iterators of
the vector are within it and those told where to stop stop there (`LoopsInRange`), and that
the count of iterators is their number (`LoopsAreCounted`). Then each action is the step of
`NotificationList` that its lemma names: adding grows what each loop owes at its end (`TailGrows`), nulling,
resetting and erasing remove one from it (`NulledAhead`, `OwedStays`), `GetNext` takes its first
(`FirstPending`, `FirstFound`), and `Compact` changes nothing that anyone sees. Theorems:
`ObserversInvariance`, `SubscriptionsInvariance`, `ObserversAreCalled`, `CallbacksAreRun`,
`HolesGoWithTheLastLoop`, and `TypesAreCorrect` for all three subjects of the run.

**`WinXPCondVar_proofs`**: any finite number of threads, any number of waits and signals.
`IInv` adds to the three invariants of the run that no handle is twice in a list
(`ListsDistinct`) and that the event in a thread's hands is in the list its step
says (`HandlesMatch`). `TypeOK` also says that whatever is in use has been made and
counted: every event listed, held, picked or set is one of the first `allocation_counter_`.
That `Signal` and `Broadcast` keep to this is `PickedAreMade`; `IInv` has the types alone (`Types`). That a recycled event is unset
unless a signal raced with a time-out (`SpuriousOnlyAfterRace`) needs that, without a
race, an event is picked once, for a thread that is still in its call (`PickedOnce`). Theorems: `Invariance`,
`TypeCorrect`, `EventsAreAccounted`, `WaitersAreReachable`, `SpuriousWakeupsFollowARace`.

**`ThreadPool_proofs`** and **`WorkerPool_proofs`**: any number of workers, delegates, starts,
tasks and failed creations. The counts of a repeated `AddWork` exclude 0: `AddWork(d, 0)`
sets `dry_` on an empty queue in the code, and a worker then takes from it, which the
debug build forbids with a DCHECK. `JoinAllFinishes` is an action property of the last `JoinThread`:
it follows from where the workers are in each phase of the owner, and how many NULLs
are left (`OwnerKnows`), and from the delegates `JoinAll` owes being ahead of these NULLs
(`OwedComesFirst`). In the worker pool `TasksHaveThreads` is a count: the threads about to look at the
queue are at least as many as the tasks in it, which `AddTask`, `WaitForTask`, time-outs and
signals to the wrong thread each change on both sides. A thread that could not be made
counts as one, because `AddTask` does not learn of it: what the theorem then says is that the task was
assigned, and `TasksAreRun` excuses a pool to which this happened. Theorems: `Invariance` of each,
`TypeCorrect`, `EachWorkRunsOnce`, `WorkIsNotSleptOn` (of both pools), `JoiningFinishes`,
`TasksRunOnce`, `ThreadsForTasks`.

**`TraceLog_proofs`**: any threads, with a loop or without, any sizes of the buffers,
options, number of events and flushes. `IInv` adds that a thread's step, its
buffer, its loop and its tasks agree, and which flush the tasks are of (`StepsMatch`);
that an event is in one place (`InOnePlace`), which `NothingTwice` counts; that a
flush has its callback until it is called (`CallsBackOnce`); and that what was there when the
flush began is in the main buffer or in a buffer that will yet be merged, and in
the main buffer once the last thread has answered (`DueIsHeld`). Theorems: `Invariance`, `TypeCorrect`,
`FlushesOnce`, `FlushesAll`.

**`Settings_proofs`**, the paths: any keys and chains of providers. That
chains end is an assumption: no provider of the code asks, through others, for its own
key. `CacheIsCurrent` compares the cache with `Current`, a recursive function; that its equation
holds at all (`ChainEquation`, `PathsExist`, `CurrentEquation`) is proved by building
the function as a least fixed point over the finite set of keys, with induction in the form of
`LeastElement`. `OthersStay` says which keys an override leaves as they
were. `IInv`, stated in `PathService`, adds that nested calls follow the chain (`CallsNest`) and
that a call which no change has overtaken has passed no override and brings
the current path (`CallsAreCurrent`). Theorems: `PathsInvariance`, `PathTypes`,
`PathCacheIsCurrent`, `PathAnswerIsCurrent`.

*The file*: any keys and values. `IInv` of `JsonPrefStore` adds that one reading at most is
under way, and that the store waits for it (`ReadsOnce`); that a closed store has no timer
(`ClosedForgets`); that, unless a value was set too early, a store that is not read or could
not be has nothing to write, and what is queued is of the store before, ahead of the reading
(`NothingToWrite`, `NothingQueued`); and that what is not scheduled is what the last
writing will leave on the disk (`FileKeeps`, with `Latest`). That a read-only store comes to
owe no more is `NothingNewIsOwed`, action by action. Theorems: `FileInvariance`,
`FileObserversAreToldOnce`, `FileReopensAsClosed`, `ReadOnlyStoreWritesNothingNew`.

*The preferences*: any members, keys, values, layers' contents and depth of nested
notifications. `IInv` of `PrefService` is that a member knows the present value,
or a notification under way still owes it a call that the overlay will let through, or
its key was changed silently (`KnowOrOwed`), and that only a member that was moved
has updates on their way (`MovedKnow`). Each change of a store is `NotifyKeeps` or
`SilentlyKeeps` with what it changes. Theorems: `PrefsInvariance`, `MembersStayInSync`.

**How far induction goes.** What the provers cannot do is instantiate an operator, as the library's
induction theorems ask for. Induction over a finite set or an initial segment of the numbers, and
the equation of a recursive function, can be had from a least element, as above. `RECURSIVE`
operators, fairness and ENABLED are out of reach; so is `SelectSeq`, which the prover
knows by name only, and in whose place `Filter` was written.

**Only model-checked**: every liveness property, and nothing else: each invariant and each
property of steps that a passing run checks is a theorem.

## 6. What is not modelled, and why

* Destruction of a waitable event while its signaller is still inside `Signal`
  (after `WaitMany` returned, without taking the lock of the event that fired):
  the events of `WaitableEvent` live for ever; those of `WaitableEventWatcher` are deleted when
  nobody watches them.
* Weak memory. The models take loads and stores in program order.
* `WinVistaCondVar`, `waitable_event_win.cc`, `lock_impl_*`: calls of the system.
* `Sleep(10)` in the destructor of `WinXPCondVar` as a bound on time: the model
  takes it to be long enough for the threads the last `Broadcast` woke, so
  `PickedThreadReturns` is about the Broadcast reaching them all.
* The message loop, `ImportantFileWriter` and the task runners: not in this tree. A loop
  runs its tasks in order and may end; the writer is a flag, a timer and a posted writing.
* Of the preferences: registration and conversion of values, `PrefMember::SetValue`, which
  marks a change as its own, and the stores that behave as the managed one does. The paths
  that end in `NOTREACHED` on a wrong type are not taken, except that a store may hold
  a value of another type.
* Of the trace log: the sampling thread (which `SetDisabled` joins with the lock
  released), watched events, filters, metadata and the JSON of events.
* Destruction of a worker pool: the last reference goes with the last thread, and what is queued
  then is dropped. A failed creation keeps its reference for ever.
* `CancelableCallback` and `BarrierClosure`: a weak pointer factory and an atomic count, both
  covered by `WeakPtr`; what is left is bound arguments.
* `FilePathWatcher`: needs the file system and the kernel's queue, a model larger than the code.
* The values of paths, observers' and callbacks' arguments, names of threads.
* Shadowing `AtExitManager`s and `Resurrect`, which only tests use; `DIR_CURRENT`, never cached.
* Sequential parsers and containers, system adapters and vendored code (see the
  components in `PROJECT.json`). They are by far the larger part of the library, in which no
  order of steps is at stake.

## 7. Plan

Done, the most important behaviour first: sequence lock, waitable event with its
abstract specification, pools, Windows condition variable, path service,
notification lists, lazy instances and singletons, weak pointers, watchers, preferences,
trace log. Still worth modelling:

1. `ThreadLocalStorage` on Windows (rounds of destructors against their bound),
   `ThreadIdNameManager` (handles and ids reused), `ThreadData` of
   `tracked_objects.cc` (lists of live and retired data).
2. Algorithms with a reference definition: `PerformInjectiveMultimap`
   (`posix/file_descriptor_shuffle.cc`), the roll-over of `TimeTicks` on Windows,
   the polling of a dying child (`process/kill_posix.cc`), the MRU cache.
3. The destruction of events in `WaitableEvent`, the sampling thread of `TraceLog`.

Runs are few on purpose: one per question, and small subsystems share one. New modules get
a `subject` of their own in the run they are nearest to.

Abstract specifications worth stating: a queue of jobs for the two pools, a map
without cache for the path service, an atomic reference for weak pointers.

Theorems to prove next: that the models implement those specifications, once they are stated.
